---- MODULE Spec2Model ----
(***************************************************************************)
(* HORUS topic bus: the topic registry, the single-producer/multi-consumer *)
(* ring channel, and the C++ Publisher/Subscriber wrappers over the C API. *)
(*                                                                         *)
(* The C++/C headers (horus.h, horus.hpp, horus_new.hpp) are modelled from *)
(* the source.  The registry and the channel live behind the C ABI; their  *)
(* behaviour is modelled from the design document (sections 4.2 and 4.3).  *)
(***************************************************************************)
EXTENDS Integers, Sequences, FiniteSets, TLC

(***************************************************************************)
(* Bounds of the model.                                                    *)
(***************************************************************************)
\* Largest value write_seq may reach on a topic.
MaxSeq == 5
\* Channel depth is N = 2^LogN (N must be a power of two).
LogN == 1
\* Reader cursors per channel (M_max, per-topic configuration).
MMax == 2
\* Sends explored in the publish-without-subscriber scenario.
MaxSends == 11

(***************************************************************************)
(* Program constants.                                                      *)
(***************************************************************************)
\* horus.h, enum MessageType
MSG_CUSTOM == 0
MSG_TWIST == 1
MSG_POSE == 2
MSG_LASER_SCAN == 3
MSG_IMAGE == 4
MSG_IMU == 5
\* Default channel depth and topic-name limit of the design document.
DefaultN == 8
MaxNameLen == 63

\* "No type bound yet" in the registry, and "never committed" in a slot.
NoType == -1
NeverCommitted == -1

Pow2(e) == IF e = 0 THEN 1 ELSE IF e = 1 THEN 2 ELSE IF e = 2 THEN 4 ELSE 8
ModelN == Pow2(LogN)

\* Topic names used by the model; LongName is 64 bytes long (invalid).
Topics == {"cmd"}
LongName == "long"
TopicNames == Topics \cup {LongName}
NameLen(name) == CASE name = "cmd" -> 3 [] OTHER -> 64
NameValid(name) == NameLen(name) <= MaxNameLen

\* C++ message types used to instantiate Publisher<T> / Subscriber<T>.
CppTypes == {"Twist", "Pose2D"}
\* Payload values (the bytes of a message, abstracted).
Payloads == {0, 1}
\* The payload sent where the claims checked do not depend on its value.
SerialPayloads == {1}
\* Twist::stop(): the all-zero twist.
StopPayload == 0

VARIABLES
    topicType,     \* registry: topic -> bound MessageType, or NoType
    hasPublisher,  \* registry: topic -> the channel's writer slot is taken
    pubLive,       \* C++: topic -> number of valid Publisher objects
    write_seq,     \* channel: topic -> next sequence number to write
    slots,         \* channel: topic -> [0..N-1 -> (sequence_committed, payload)]
    read_seq,      \* channel: topic -> sequence of reader cursors
    dropped,       \* channel: topic -> sequence of per-subscriber drop counters
    delivered,     \* history: topic -> last sequence delivered to each subscriber
    createdBy,     \* registry: topic -> which bind created the channel
    sent,          \* history: payloads the writer thread published, by sequence
    res,           \* result of the last API call
    wpc, ws, wp,   \* writer thread: step, local s, payload being published
    rpc, rs, rk,   \* reader thread: step, local s, local slot index
    nodes,         \* scheduler: registered entries (kind, priority), by registration
    phase,         \* scheduler: where run() is
    pos,           \* scheduler: index of the entry the current phase is at
    order,         \* scheduler: node ids sorted by (priority, registration_index)
    running,       \* scheduler: the running flag
    tickNo,        \* scheduler: number of completed ticks (periods)
    nstate,        \* scheduler: node id -> state of the node's state machine
    ctxOwned,      \* scheduler: node id -> topics whose publisher it owns via its context
    errLog,        \* scheduler: ERROR records the scheduler logged, <<kind, node>>
    torn,          \* scheduler: handles unbound and channels released
    initRet,       \* node id -> what the node's init() returned
    shutRet,       \* node id -> what the node's shutdown() returned
    nodeCursor,    \* node id -> cursor of the Subscriber the node holds (0: none)
    calls,         \* history: node id -> number of init / tick / shutdown calls
    tickTrace,     \* history: node ids ticked so far in the current period
    shutTrace,     \* history: node ids in the order their shutdown was called
    ticksAfterStop,\* history: periods begun after running was cleared
    sentTick,      \* history: period in which each sequence number was sent
    last,          \* history: the callback the last scheduler step invoked
    rt,            \* round trip: one Twist object through one slot of a channel
    wr,            \* wrappers: the Publisher / Subscriber objects of a program
    own,           \* owners: the Scheduler / System objects of a program
    msg,           \* message library: one message object and its last call
    clk            \* scheduler clock: now, next_deadline and the tick in progress

regVars == <<topicType, hasPublisher, createdBy, pubLive>>
chanVars == <<write_seq, slots, read_seq, dropped>>
histVars == <<delivered, sent>>
thrVars == <<wpc, ws, wp, rpc, rs, rk>>
schedVars == <<nodes, phase, pos, order, running, tickNo, nstate, ctxOwned,
               errLog, torn, initRet, shutRet, nodeCursor>>
schedHist == <<calls, tickTrace, shutTrace, ticksAfterStop, sentTick, last>>
\* What the steps of the registry / channel specifications leave alone.
libVars == <<own, msg, clk>>
extVars == <<rt, wr, libVars>>
auxVars == <<schedVars, schedHist, extVars>>
vars == <<topicType, hasPublisher, createdBy, pubLive, write_seq, slots,
          read_seq, dropped, delivered, sent, res, wpc, ws, wp, rpc, rs, rk,
          schedVars, schedHist, extVars>>

NSlots(t) == Cardinality(DOMAIN slots[t])

EmptySlots(n) ==
    [k \in 0..(n - 1) |-> [sequence_committed |-> NeverCommitted, payload |-> 0]]

\* Nodes the application registers, in registration order.
NodeNames == <<"A", "B", "C">>
NodeIds == 1..Len(NodeNames)

\* No callback invoked by the last step.
NoCall == [cb |-> "none", node |-> 0, tick |-> 0, raised |-> FALSE]

\* A scheduler that was created and has no node registered.
SchedInit ==
    /\ nodes = << >>
    /\ phase = "setup"
    /\ pos = 0
    /\ order = << >>
    /\ running = TRUE
    /\ tickNo = 0
    /\ nstate = [n \in NodeIds |-> "Unregistered"]
    /\ ctxOwned = [n \in NodeIds |-> {}]
    /\ errLog = {}
    /\ torn = FALSE
    /\ initRet = [n \in NodeIds |-> "none"]
    /\ shutRet = [n \in NodeIds |-> "none"]
    /\ nodeCursor = [n \in NodeIds |-> 0]
    /\ calls = [n \in NodeIds |-> [init |-> 0, tick |-> 0, shutdown |-> 0]]
    /\ tickTrace = << >>
    /\ shutTrace = << >>
    /\ ticksAfterStop = 0
    /\ sentTick = << >>
    /\ last = NoCall

\* No message object and no wrapper object exists.
NoRoundTrip == [phase |-> "off"]
NoWrappers == [phase |-> "off"]
\* No owner object, no message object, the clock not started.
NoOwners == [phase |-> "off"]
NoMessage == [type |-> "none"]
NoClock == [phase |-> "off"]
LibInit == own = NoOwners /\ msg = NoMessage /\ clk = NoClock
WrapInit == rt = NoRoundTrip /\ wr = NoWrappers /\ LibInit

NoRes == [op |-> "none", topic |-> "", ty |-> NoType, idx |-> 0, ok |-> FALSE,
          handle |-> 0, err |-> "", seq |-> -1, payload |-> 0]

(***************************************************************************)
(* horus_new.hpp: Publisher<T>::get_message_type and its specialisations.  *)
(***************************************************************************)
get_message_type(T) ==
    CASE T = "Twist" -> MSG_TWIST
      [] T = "LaserScan" -> MSG_LASER_SCAN
      [] T = "Image" -> MSG_IMAGE
      [] T = "Imu" -> MSG_IMU
      [] OTHER -> MSG_CUSTOM

\* Opaque non-zero handles: a publisher handle names its topic, a subscriber
\* handle names its cursor in the channel's cursor table.
PubHandle(t) == CASE t = "cmd" -> 1 [] OTHER -> 2
SubHandle(t, i) == i

(***************************************************************************)
(* Topic registry (design section 4.2).                                    *)
(***************************************************************************)
BindPublisherErr(name, ty) ==
    IF ~NameValid(name) THEN "NameInvalid"
    ELSE IF topicType[name] # NoType /\ topicType[name] # ty THEN "TypeMismatch"
    ELSE IF hasPublisher[name] THEN "DuplicatePublisher"
    ELSE "Ok"

\* Mutant of BindSubscriberErr: a subscriber cannot precede the publisher.
BindSubscriberErr_noWaitingChannel(name, ty) ==
    IF ~NameValid(name) THEN "NameInvalid"
    ELSE IF topicType[name] = NoType THEN "NameInvalid"
    ELSE IF topicType[name] # ty THEN "TypeMismatch"
    ELSE IF Len(read_seq[name]) >= MMax THEN "TooManySubscribers"
    ELSE "Ok"

\* Mutant of BindSubscriberErr: the cursor-table limit is off by one.
BindSubscriberErr_offByOne(name, ty) ==
    IF ~NameValid(name) THEN "NameInvalid"
    ELSE IF topicType[name] # NoType /\ topicType[name] # ty THEN "TypeMismatch"
    ELSE IF Len(read_seq[name]) > MMax THEN "TooManySubscribers"
    ELSE "Ok"

BindSubscriberErr(name, ty) ==
    IF ~NameValid(name) THEN "NameInvalid"
    ELSE IF topicType[name] # NoType /\ topicType[name] # ty THEN "TypeMismatch"
    ELSE IF Len(read_seq[name]) >= MMax THEN "TooManySubscribers"
    ELSE "Ok"

\* Cursor given to a newly bound subscriber: the first sequence number.
InitialCursor(t) == 0

\* C API publisher(topic, type): bind_publisher; 0 on any error.
publisher(name, ty) ==
    LET e == BindPublisherErr(name, ty) IN
    /\ IF e = "Ok"
       THEN /\ topicType' = [topicType EXCEPT ![name] = ty]
            /\ hasPublisher' = [hasPublisher EXCEPT ![name] = TRUE]
            /\ createdBy' = IF topicType[name] = NoType
                            THEN [createdBy EXCEPT ![name] = "publisher"]
                            ELSE createdBy
       ELSE UNCHANGED <<topicType, hasPublisher, createdBy>>
    /\ res' = [NoRes EXCEPT !.op = "publisher", !.topic = name, !.ty = ty,
                            !.ok = (e = "Ok"), !.err = e,
                            !.handle = IF e = "Ok" THEN PubHandle(name) ELSE 0]
    /\ UNCHANGED <<chanVars, histVars, thrVars>>

\* C API subscriber(topic, type): bind_subscriber; 0 on any error.
subscriber(name, ty) ==
    LET e == BindSubscriberErr(name, ty) IN
    /\ IF e = "Ok"
       THEN /\ topicType' = [topicType EXCEPT ![name] = ty]
            /\ read_seq' = [read_seq EXCEPT ![name] = Append(@, InitialCursor(name))]
            /\ dropped' = [dropped EXCEPT ![name] = Append(@, 0)]
            /\ delivered' = [delivered EXCEPT ![name] = Append(@, -1)]
            /\ createdBy' = IF topicType[name] = NoType
                            THEN [createdBy EXCEPT ![name] = "subscriber"]
                            ELSE createdBy
       ELSE UNCHANGED <<topicType, read_seq, dropped, delivered, createdBy>>
    /\ res' = [NoRes EXCEPT !.op = "subscriber", !.topic = name, !.ty = ty,
                            !.ok = (e = "Ok"), !.err = e,
                            !.idx = IF e = "Ok" THEN Len(read_seq[name]) + 1 ELSE 0,
                            !.handle = IF e = "Ok"
                                       THEN SubHandle(name, Len(read_seq[name]) + 1)
                                       ELSE 0]
    /\ UNCHANGED <<hasPublisher, write_seq, slots, sent, thrVars>>

(***************************************************************************)
(* Channel (design section 4.3), one call executed without interleaving.   *)
(***************************************************************************)
\* Mutant of Publish: step 3 is skipped, the slot's sequence is not committed.
Publish_noCommit(t, p) ==
    LET s == write_seq[t]
        k == s % NSlots(t)
    IN  /\ slots' = [slots EXCEPT ![t][k].payload = p]
        /\ write_seq' = [write_seq EXCEPT ![t] = s + 1]

\* Publish steps 1-4: s = write_seq, k = s mod N, copy the payload, commit
\* the slot's sequence, increment write_seq.
Publish(t, p) ==
    LET s == write_seq[t]
        k == s % NSlots(t)
    IN  /\ slots' = [slots EXCEPT ![t][k] = [sequence_committed |-> s, payload |-> p]]
        /\ write_seq' = [write_seq EXCEPT ![t] = s + 1]

\* "publish never blocks and never fails": the value send() returns.
SendReturns(t) == TRUE

\* Receive step 3: messages counted as dropped when the slot holds s > c.
DropsFor(s, c) == IF s > c THEN s - c ELSE 0

\* Receive step 3: the cursor is advanced to the oldest still-available
\* sequence, write_seq - N + 1 clamped to >= 0.
OldestAvailable(w, n) == IF w - n + 1 < 0 THEN 0 ELSE w - n + 1

\* Receive step 4: the cursor after a successful receive of sequence s.
NextCursor(s) == s + 1

\* Mutant of Receive: after an overrun the cursor is left at the "oldest
\* still-available" sequence of step 3 instead of being set to s + 1.
Receive_keepsStep3Cursor(t, i) ==
    LET c == read_seq[t][i]
        k == c % NSlots(t)
        s == slots[t][k].sequence_committed
    IN  IF s < c
        THEN [ok |-> FALSE, seq |-> -1, payload |-> 0, cursor |-> c, drops |-> 0]
        ELSE [ok |-> TRUE, seq |-> s, payload |-> slots[t][k].payload,
              cursor |-> IF s > c THEN OldestAvailable(write_seq[t], NSlots(t))
                         ELSE NextCursor(s),
              drops |-> DropsFor(s, c)]

\* Receive steps 1-4 for cursor i of topic t: the slot index k = c mod N is
\* fixed in step 1; s is the slot's committed sequence.
Receive(t, i) ==
    LET c == read_seq[t][i]
        k == c % NSlots(t)
        s == slots[t][k].sequence_committed
    IN  IF s < c
        THEN [ok |-> FALSE, seq |-> -1, payload |-> 0, cursor |-> c, drops |-> 0]
        ELSE [ok |-> TRUE, seq |-> s, payload |-> slots[t][k].payload,
              cursor |-> NextCursor(s), drops |-> DropsFor(s, c)]

(***************************************************************************)
(* C++ wrappers (horus_new.hpp / horus.hpp).                               *)
(***************************************************************************)
\* Mutant of Publisher_ctor: valid_ is not derived from the handle, so a
\* wrapper counts as live although the bind returned 0.
Publisher_ctor_noValidCheck(t, T) ==
    /\ publisher(t, get_message_type(T))
    /\ pubLive' = IF t \in Topics
                  THEN [pubLive EXCEPT ![t] = @ + 1]
                  ELSE pubLive

\* Publisher<T>::Publisher(topic): handle_ = publisher(topic, type);
\* valid_ = (handle_ != 0); throws when invalid (no object then exists).
Publisher_ctor(t, T) ==
    /\ publisher(t, get_message_type(T))
    /\ pubLive' = IF res'.handle # 0 /\ t \in Topics
                  THEN [pubLive EXCEPT ![t] = @ + 1]
                  ELSE pubLive

\* Subscriber<T>::Subscriber(topic): handle_ = subscriber(topic, type).
Subscriber_ctor(t, T) ==
    /\ subscriber(t, get_message_type(T))
    /\ UNCHANGED pubLive

\* Publisher<T>::~Publisher(): the destructor body is empty and the C API has
\* no call that releases a publisher, so the registry is not touched.
Publisher_dtor(t) ==
    /\ pubLive[t] > 0
    /\ pubLive' = [pubLive EXCEPT ![t] = @ - 1]
    /\ res' = [NoRes EXCEPT !.op = "~Publisher", !.topic = t, !.ok = TRUE]
    /\ UNCHANGED <<topicType, hasPublisher, createdBy, chanVars, histVars, thrVars>>

\* Mutant of try_send: the validity test is inverted.
try_send_inverted(valid, sendResult) == IF valid THEN FALSE ELSE sendResult

\* Publisher<T>::try_send: false on an invalid publisher, else ::send's result.
try_send(valid, sendResult) == IF ~valid THEN FALSE ELSE sendResult

\* Publisher<T>::send / try_send on a wrapper of topic t; valid_ holds when
\* the wrapper came out of a successful constructor.
Publisher_send(t, p) ==
    /\ IF pubLive[t] > 0
       THEN Publish(t, p)
       ELSE UNCHANGED <<write_seq, slots>>
    /\ res' = [NoRes EXCEPT !.op = "send", !.topic = t,
                            !.ok = try_send(pubLive[t] > 0, SendReturns(t)),
                            !.err = IF try_send(pubLive[t] > 0, SendReturns(t))
                                    THEN "" ELSE "HorusException",
                            !.seq = IF pubLive[t] > 0 THEN write_seq[t] ELSE -1,
                            !.payload = p]
    /\ UNCHANGED <<regVars, read_seq, dropped, histVars, thrVars>>

\* Mutant of recv_result: the validity test is inverted.
recv_result_inverted(valid, recvResult) == IF valid THEN FALSE ELSE recvResult

\* Subscriber<T>::recv: false on an invalid subscriber, else ::recv's result.
recv_result(valid, recvResult) == IF ~valid THEN FALSE ELSE recvResult

\* Subscriber<T>::recv on cursor i of topic t: ::recv(handle_, &msg).  The
\* wrapper of a bound cursor is valid.
Subscriber_recv(t, i) ==
    /\ i \in 1..Len(read_seq[t])
    /\ LET r == Receive(t, i) IN
       /\ read_seq' = [read_seq EXCEPT ![t][i] = r.cursor]
       /\ dropped' = [dropped EXCEPT ![t][i] = @ + r.drops]
       /\ delivered' = [delivered EXCEPT ![t][i] = IF r.ok THEN r.seq ELSE @]
       /\ res' = [NoRes EXCEPT !.op = "recv", !.topic = t, !.idx = i,
                               !.ok = recv_result(TRUE, r.ok),
                               !.seq = r.seq, !.payload = r.payload]
    /\ UNCHANGED <<regVars, write_seq, slots, sent, thrVars>>

(***************************************************************************)
(* Specification: registry and channels, API calls not interleaved.        *)
(***************************************************************************)
BusInit(n) ==
    /\ topicType = [t \in Topics |-> NoType]
    /\ hasPublisher = [t \in Topics |-> FALSE]
    /\ pubLive = [t \in Topics |-> 0]
    /\ write_seq = [t \in Topics |-> 0]
    /\ slots = [t \in Topics |-> EmptySlots(n)]
    /\ read_seq = [t \in Topics |-> << >>]
    /\ dropped = [t \in Topics |-> << >>]
    /\ delivered = [t \in Topics |-> << >>]
    /\ createdBy = [t \in Topics |-> "none"]
    /\ sent = << >>
    /\ res = NoRes
    /\ wpc = "idle" /\ ws = 0 /\ wp = 0
    /\ rpc = "idle" /\ rs = 0 /\ rk = 0

InitWith(n) == BusInit(n) /\ SchedInit /\ WrapInit

Init == InitWith(ModelN)

Next ==
    \/ /\ \E t \in TopicNames, T \in CppTypes : Publisher_ctor(t, T)
       /\ UNCHANGED auxVars
    \/ /\ \E t \in TopicNames, T \in CppTypes : Subscriber_ctor(t, T)
       /\ UNCHANGED auxVars
    \/ /\ \E t \in Topics : Publisher_dtor(t)
       /\ UNCHANGED auxVars
    \/ /\ \E t \in Topics, p \in SerialPayloads :
             write_seq[t] < MaxSeq /\ Publisher_send(t, p)
       /\ UNCHANGED auxVars
    \/ /\ \E t \in Topics, i \in 1..MMax : Subscriber_recv(t, i)
       /\ UNCHANGED auxVars

Spec == Init /\ [][Next]_vars

(***************************************************************************)
(* Specification: "publish without subscriber".  A Publisher<Twist> on a   *)
(* channel of the default depth sends Twist::stop() while the topic has no *)
(* subscriber; subscribers are created afterwards and receive.             *)
(***************************************************************************)
ScenarioTopic == "cmd"

InitPubNoSub == InitWith(DefaultN)

NextPubNoSub ==
    \/ /\ Publisher_ctor(ScenarioTopic, "Twist")
       /\ UNCHANGED auxVars
    \/ /\ Len(read_seq[ScenarioTopic]) = 0
       /\ write_seq[ScenarioTopic] < MaxSends
       /\ Publisher_send(ScenarioTopic, StopPayload)
       /\ UNCHANGED auxVars
    \/ /\ Subscriber_ctor(ScenarioTopic, "Twist")
       /\ UNCHANGED auxVars
    \/ /\ \E i \in 1..MMax : Subscriber_recv(ScenarioTopic, i)
       /\ UNCHANGED auxVars

SpecPubNoSub == InitPubNoSub /\ [][NextPubNoSub]_vars

(***************************************************************************)
(* Specification: one writer thread and one reader thread on one channel,  *)
(* interleaved at the numbered steps of Publish and Receive (section 4.3). *)
(***************************************************************************)
ConcTopic == "cmd"
ConcSub == 1

\* Publish step 1: s = write_seq, k = s mod N (the payload is the argument).
WriterStep1(p) ==
    /\ wpc = "idle"
    /\ write_seq[ConcTopic] < MaxSeq
    /\ ws' = write_seq[ConcTopic]
    /\ wp' = p
    /\ sent' = Append(sent, p)
    /\ wpc' = "w2"
    /\ UNCHANGED <<regVars, chanVars, delivered, res, rpc, rs, rk>>

\* Publish step 2: copy the payload into slots[k].payload.
WriterStep2 ==
    /\ wpc = "w2"
    /\ slots' = [slots EXCEPT ![ConcTopic][ws % NSlots(ConcTopic)].payload = wp]
    /\ wpc' = "w3"
    /\ UNCHANGED <<regVars, write_seq, read_seq, dropped, histVars, res, ws, wp, rpc, rs, rk>>

\* Publish step 3: release fence, then slots[k].sequence_committed = s.
WriterStep3 ==
    /\ wpc = "w3"
    /\ slots' = [slots EXCEPT
                    ![ConcTopic][ws % NSlots(ConcTopic)].sequence_committed = ws]
    /\ wpc' = "w4"
    /\ UNCHANGED <<regVars, write_seq, read_seq, dropped, histVars, res, ws, wp, rpc, rs, rk>>

\* Publish step 4: increment write_seq.
WriterStep4 ==
    /\ wpc = "w4"
    /\ write_seq' = [write_seq EXCEPT ![ConcTopic] = @ + 1]
    /\ wpc' = "idle"
    /\ UNCHANGED <<regVars, slots, read_seq, dropped, histVars, res, ws, wp, rpc, rs, rk>>

\* Receive step 1: s = slots[c mod N].sequence_committed, with acquire.
ReaderStep1 ==
    /\ rpc = "idle"
    /\ rk' = read_seq[ConcTopic][ConcSub] % NSlots(ConcTopic)
    /\ rs' = slots[ConcTopic][read_seq[ConcTopic][ConcSub] % NSlots(ConcTopic)]
                  .sequence_committed
    /\ rpc' = "r2"
    /\ UNCHANGED <<regVars, chanVars, histVars, res, wpc, ws, wp>>

\* Receive step 2: s < c means no message.
ReaderStep2 ==
    /\ rpc = "r2"
    /\ IF rs < read_seq[ConcTopic][ConcSub]
       THEN /\ rpc' = "idle"
            /\ res' = [NoRes EXCEPT !.op = "recv", !.topic = ConcTopic,
                                    !.idx = ConcSub]
       ELSE /\ rpc' = "r3"
            /\ res' = res
    /\ UNCHANGED <<regVars, chanVars, histVars, wpc, ws, wp, rs, rk>>

\* Receive step 3: s > c counts s - c drops and advances the cursor to the
\* oldest still-available sequence.
ReaderStep3 ==
    /\ rpc = "r3"
    /\ IF rs > read_seq[ConcTopic][ConcSub]
       THEN /\ dropped' = [dropped EXCEPT ![ConcTopic][ConcSub] =
                               @ + DropsFor(rs, read_seq[ConcTopic][ConcSub])]
            /\ read_seq' = [read_seq EXCEPT ![ConcTopic][ConcSub] =
                               OldestAvailable(write_seq[ConcTopic], NSlots(ConcTopic))]
       ELSE UNCHANGED <<dropped, read_seq>>
    /\ rpc' = "r4"
    /\ UNCHANGED <<regVars, write_seq, slots, histVars, res, wpc, ws, wp, rs, rk>>

\* Receive step 4: copy the payload out, c = s + 1, success.
ReaderStep4 ==
    /\ rpc = "r4"
    /\ read_seq' = [read_seq EXCEPT ![ConcTopic][ConcSub] = NextCursor(rs)]
    /\ res' = [NoRes EXCEPT !.op = "recv", !.topic = ConcTopic, !.idx = ConcSub,
                            !.ok = TRUE, !.seq = rs,
                            !.payload = slots[ConcTopic][rk].payload]
    /\ delivered' = [delivered EXCEPT ![ConcTopic][ConcSub] = rs]
    /\ rpc' = "idle"
    /\ UNCHANGED <<regVars, write_seq, slots, dropped, sent, wpc, ws, wp, rs, rk>>

\* The state after Publisher<Twist> and Subscriber<Twist> were constructed
\* on the topic.
InitConc ==
    /\ topicType = [t \in Topics |-> MSG_TWIST]
    /\ hasPublisher = [t \in Topics |-> TRUE]
    /\ createdBy = [t \in Topics |-> "publisher"]
    /\ pubLive = [t \in Topics |-> 1]
    /\ write_seq = [t \in Topics |-> 0]
    /\ slots = [t \in Topics |-> EmptySlots(ModelN)]
    /\ read_seq = [t \in Topics |-> <<InitialCursor(t)>>]
    /\ dropped = [t \in Topics |-> <<0>>]
    /\ delivered = [t \in Topics |-> <<-1>>]
    /\ sent = << >>
    /\ res = NoRes
    /\ wpc = "idle" /\ ws = 0 /\ wp = 0
    /\ rpc = "idle" /\ rs = 0 /\ rk = 0
    /\ SchedInit
    /\ WrapInit

NextConc ==
    \/ (\E p \in Payloads : WriterStep1(p)) /\ UNCHANGED auxVars
    \/ WriterStep2 /\ UNCHANGED auxVars
    \/ WriterStep3 /\ UNCHANGED auxVars
    \/ WriterStep4 /\ UNCHANGED auxVars
    \/ ReaderStep1 /\ UNCHANGED auxVars
    \/ ReaderStep2 /\ UNCHANGED auxVars
    \/ ReaderStep3 /\ UNCHANGED auxVars
    \/ ReaderStep4 /\ UNCHANGED auxVars

SpecConc == InitConc /\ [][NextConc]_vars

(***************************************************************************)
(* Scheduler (design section 4.6) driving C++ nodes through the callbacks  *)
(* of horus.hpp / horus_new.hpp.  The run() algorithm lives behind the C   *)
(* ABI and follows the design document; the callbacks, the wrappers the    *)
(* nodes hold and Scheduler::stop follow the headers.                      *)
(***************************************************************************)
\* Ticks (periods) a run executes at most.
MaxTicks == 2

\* horus.h, enum Priority
PRIORITY_CRITICAL == 0
PRIORITY_HIGH == 1
PRIORITY_NORMAL == 2

\* Priorities the application registers nodes with.
Priorities == {PRIORITY_CRITICAL, PRIORITY_HIGH, PRIORITY_NORMAL}

\* What a node does: "pub" creates a Publisher<Twist> on the topic in init
\* and sends in tick (and a stop command in shutdown); "sub" creates a
\* Subscriber<Twist> in init and calls recv in tick; "plain" touches no topic.
\* The application: node A publishes, node B subscribes, node C is either a
\* second publisher of the same topic or touches no topic.
KindsOf(i) == CASE i = 1 -> {"pub"} [] i = 2 -> {"sub"} [] OTHER -> {"pub", "plain"}
NodeTopic == "cmd"

\* Everything the registry / channel specifications own.
busVars == <<regVars, chanVars, histVars, thrVars, res>>

\* Mutant of TicksBefore: equal priorities are ordered by later registration.
TicksBefore_tiesReversed(a, b) ==
    \/ nodes[a].priority < nodes[b].priority
    \/ nodes[a].priority = nodes[b].priority /\ a > b

\* The sort key (priority, registration_index): a is ticked before b.
TicksBefore(a, b) ==
    \/ nodes[a].priority < nodes[b].priority
    \/ nodes[a].priority = nodes[b].priority /\ a < b

\* run() step 2: the node ids of S sorted by (priority, registration_index).
RECURSIVE RunOrder(_)
RunOrder(S) ==
    IF S = {} THEN << >>
    ELSE LET m == CHOOSE a \in S : \A b \in S \ {a} : TicksBefore(a, b)
         IN  <<m>> \o RunOrder(S \ {m})

\* run() step 4a: the next entry after position p whose node is still ticked
\* (a node in Stopping is excluded); Len(order) + 1 when there is none.
NextRunnable(p) ==
    LET S == {q \in (p + 1)..Len(order) : nstate[order[q]] # "Stopping"}
    IN  IF S = {} THEN Len(order) + 1
        ELSE CHOOSE q \in S : \A r \in S : q <= r

\* Mutant of init_callback: the result of init() is not forwarded.
init_callback_alwaysTrue(r) == "ok"

\* Node::init_callback: returns what the node's virtual init() returned.
init_callback(r) == r

\* Node::ffi_shutdown_callback: the callback type returns void, so the bool
\* the node's shutdown() returned is discarded.
ffi_shutdown_callback(r) == "void"

\* Scheduler::register_node / Scheduler::add: the entry is appended.
Scheduler_add(kind, priority) ==
    /\ phase = "setup"
    /\ Len(nodes) < Len(NodeNames)
    /\ nodes' = Append(nodes, [kind |-> kind, priority |-> priority])
    /\ nstate' = [nstate EXCEPT ![Len(nodes) + 1] = "Registered"]
    /\ last' = NoCall
    /\ UNCHANGED <<phase, pos, order, running, tickNo, ctxOwned, errLog, torn,
                   initRet, shutRet, nodeCursor>>
    /\ UNCHANGED <<calls, tickTrace, shutTrace, ticksAfterStop, sentTick>>
    /\ UNCHANGED busVars

\* Scheduler::run: scheduler_run(handle_) enters step 1 of run().
Scheduler_run ==
    /\ phase = "setup"
    /\ Len(nodes) >= 1
    /\ phase' = "init"
    /\ pos' = 1
    /\ last' = NoCall
    /\ UNCHANGED <<nodes, order, running, tickNo, nstate, ctxOwned, errLog, torn,
                   initRet, shutRet, nodeCursor>>
    /\ UNCHANGED <<calls, tickTrace, shutTrace, ticksAfterStop, sentTick>>
    /\ UNCHANGED busVars

\* Scheduler::stop (scheduler_stop) or the interrupt handler: clears running.
Scheduler_stop ==
    /\ phase \in {"init", "initret", "loop", "tick"}
    /\ running
    /\ running' = FALSE
    /\ last' = NoCall
    /\ UNCHANGED <<nodes, phase, pos, order, tickNo, nstate, ctxOwned, errLog, torn,
                   initRet, shutRet, nodeCursor>>
    /\ UNCHANGED <<calls, tickTrace, shutTrace, ticksAfterStop, sentTick>>
    /\ UNCHANGED busVars

\* NodeContext::create_publisher<Twist>(topic): constructs
\* Publisher<Twist>(topic, ctx), whose constructor binds with
\* publisher(topic, MSG_TWIST); the context is kept by the wrapper for
\* node_send only, so the registry is not told which node owns the handle.
NodeContext_create_publisher(n, t) ==
    /\ Publisher_ctor(t, "Twist")
    /\ UNCHANGED ctxOwned

\* NodeContext::create_subscriber<Twist>(topic): Subscriber<Twist>(topic, ctx),
\* bound with subscriber(topic, MSG_TWIST).
NodeContext_create_subscriber(n, t) ==
    /\ Subscriber_ctor(t, "Twist")
    /\ UNCHANGED ctxOwned

\* C API node_create_publisher(ctx, topic, type): a bind made through the
\* node's context, which the scheduler records as owned by the node.
node_create_publisher(n, t, ty) ==
    /\ publisher(t, ty)
    /\ ctxOwned' = IF res'.handle # 0
                   THEN [ctxOwned EXCEPT ![n] = @ \cup {t}]
                   ELSE ctxOwned
    /\ UNCHANGED pubLive

\* run() step 1, the call: init(ctx) of the node at position pos.  The node
\* creates its handle; init returns false when that throws or when the
\* node's device does not open (devOk).
Node_init(n, devOk) ==
    /\ phase = "init"
    /\ n = pos
    /\ CASE nodes[n].kind = "pub" ->
              /\ NodeContext_create_publisher(n, NodeTopic)
              /\ UNCHANGED nodeCursor
         [] nodes[n].kind = "sub" ->
              /\ NodeContext_create_subscriber(n, NodeTopic)
              /\ nodeCursor' = [nodeCursor EXCEPT ![n] = res'.idx]
         [] OTHER ->
              /\ res' = [NoRes EXCEPT !.op = "init", !.ok = TRUE]
              /\ UNCHANGED <<regVars, chanVars, histVars, thrVars, ctxOwned,
                             nodeCursor>>
    /\ initRet' = [initRet EXCEPT ![n] =
                      IF (nodes[n].kind = "plain" \/ res'.handle # 0) /\ devOk
                      THEN "ok" ELSE "fail"]
    /\ calls' = [calls EXCEPT ![n].init = @ + 1]
    /\ last' = [cb |-> "init", node |-> n, tick |-> tickNo, raised |-> FALSE]
    /\ phase' = "initret"
    /\ UNCHANGED <<nodes, pos, order, running, tickNo, nstate, errLog, torn, shutRet>>
    /\ UNCHANGED <<tickTrace, shutTrace, ticksAfterStop, sentTick>>

\* run() step 1, the result (what init_callback handed back): a failed init marks the node not-initialized,
\* logs an error and unbinds the handles the node owns; after the last
\* node, step 2 sorts the initialized nodes.
run_initResult ==
    /\ phase = "initret"
    /\ LET n == pos
           okNow == init_callback(initRet[n]) = "ok"
       IN  /\ nstate' = [nstate EXCEPT ![n] = IF okNow THEN "Initialized" ELSE "Gone"]
           /\ errLog' = IF okNow THEN errLog ELSE errLog \cup {<<"InitFailure", n>>}
           /\ hasPublisher' = IF okNow THEN hasPublisher
                              ELSE [t \in Topics |->
                                      IF t \in ctxOwned[n] THEN FALSE
                                      ELSE hasPublisher[t]]
           /\ ctxOwned' = IF okNow THEN ctxOwned ELSE [ctxOwned EXCEPT ![n] = {}]
           /\ IF pos < Len(nodes)
              THEN /\ phase' = "init"
                   /\ pos' = pos + 1
                   /\ order' = order
              ELSE /\ phase' = "loop"
                   /\ pos' = 0
                   /\ order' = RunOrder({m \in 1..Len(nodes) :
                                            nstate'[m] = "Initialized"})
    /\ last' = NoCall
    /\ UNCHANGED <<nodes, running, tickNo, torn, initRet, shutRet, nodeCursor>>
    /\ UNCHANGED <<calls, tickTrace, shutTrace, ticksAfterStop, sentTick>>
    /\ UNCHANGED <<topicType, createdBy, pubLive, chanVars, histVars, thrVars, res>>

\* Mutant of LoopContinues: the loop does not test the running flag.
LoopContinues_ignoresRunning == tickNo < MaxTicks

\* run() step 4: "loop while running" (bounded by MaxTicks periods).
LoopContinues == running /\ tickNo < MaxTicks

\* run() step 4, the loop test: start the next tick, or leave for step 5.
run_loop ==
    /\ phase = "loop"
    /\ IF LoopContinues
       THEN /\ phase' = "tick"
            /\ pos' = NextRunnable(0)
            /\ ticksAfterStop' = IF running THEN ticksAfterStop
                                 ELSE ticksAfterStop + 1
       ELSE /\ ~running
            /\ phase' = "shutdown"
            /\ pos' = 1
            /\ UNCHANGED ticksAfterStop
    /\ tickTrace' = << >>
    /\ last' = NoCall
    /\ UNCHANGED <<nodes, order, running, tickNo, nstate, ctxOwned, errLog, torn,
                   initRet, shutRet, nodeCursor>>
    /\ UNCHANGED <<calls, shutTrace, sentTick>>
    /\ UNCHANGED busVars

\* Outcomes of an exception that leaves Node::tick_callback: the callback
\* has no handler and is called through the C ABI, so the behaviour is
\* undefined.  "caught": the scheduler handles it as a TickFault;
\* "terminate": the process is terminated; "unwind": the exception unwinds
\* through scheduler_run to the caller of Scheduler::run.
TickFaultOutcomes == {"caught", "terminate", "unwind"}

\* run() step 4a, the call: tick(ctx) of the node at position pos returns.
Node_tick(n) ==
    /\ phase = "tick"
    /\ pos <= Len(order)
    /\ n = order[pos]
    /\ CASE nodes[n].kind = "pub" ->
              /\ \E p \in SerialPayloads : Publisher_send(NodeTopic, p)
              /\ sentTick' = Append(sentTick, tickNo)
         [] nodes[n].kind = "sub" ->
              /\ Subscriber_recv(NodeTopic, nodeCursor[n])
              /\ UNCHANGED sentTick
         [] OTHER ->
              /\ res' = [NoRes EXCEPT !.op = "tick", !.ok = TRUE]
              /\ UNCHANGED <<regVars, chanVars, histVars, thrVars, sentTick>>
    /\ calls' = [calls EXCEPT ![n].tick = @ + 1]
    /\ tickTrace' = Append(tickTrace, n)
    /\ last' = [cb |-> "tick", node |-> n, tick |-> tickNo, raised |-> FALSE]
    /\ pos' = NextRunnable(pos)
    /\ UNCHANGED <<nodes, phase, order, running, tickNo, nstate, ctxOwned, errLog,
                   torn, initRet, shutRet, nodeCursor>>
    /\ UNCHANGED <<shutTrace, ticksAfterStop>>

\* run() step 4a, the call: tick(ctx) of the node at position pos throws
\* (for instance Publisher::send throwing HorusException).  At most one node
\* faults in a run.
Node_tick_raises(n, outcome) ==
    /\ phase = "tick"
    /\ pos <= Len(order)
    /\ n = order[pos]
    /\ \A m \in NodeIds : nstate[m] # "Stopping"
    /\ calls' = [calls EXCEPT ![n].tick = @ + 1]
    /\ tickTrace' = Append(tickTrace, n)
    /\ last' = [cb |-> "tick", node |-> n, tick |-> tickNo, raised |-> TRUE]
    /\ res' = [NoRes EXCEPT !.op = "tick", !.err = "HorusException"]
    /\ CASE outcome = "caught" ->
              /\ nstate' = [nstate EXCEPT ![n] = "Stopping"]
              /\ errLog' = errLog \cup {<<"TickFault", n>>}
              /\ pos' = NextRunnable(pos)
              /\ phase' = phase
         [] outcome = "terminate" ->
              /\ phase' = "aborted"
              /\ UNCHANGED <<nstate, errLog, pos>>
         [] OTHER ->
              /\ phase' = "unwound"
              /\ UNCHANGED <<nstate, errLog, pos>>
    /\ UNCHANGED <<nodes, order, running, tickNo, ctxOwned, torn, initRet, shutRet,
                   nodeCursor>>
    /\ UNCHANGED <<shutTrace, ticksAfterStop, sentTick>>
    /\ UNCHANGED <<regVars, chanVars, histVars, thrVars>>

\* run() step 4b: every node of the period was ticked; sleep until the
\* deadline and go back to the loop test.
run_endTick ==
    /\ phase = "tick"
    /\ pos > Len(order)
    /\ tickNo' = tickNo + 1
    /\ phase' = "loop"
    /\ pos' = 0
    /\ last' = NoCall
    /\ UNCHANGED <<nodes, order, running, nstate, ctxOwned, errLog, torn, initRet,
                   shutRet, nodeCursor>>
    /\ UNCHANGED <<calls, tickTrace, shutTrace, ticksAfterStop, sentTick>>
    /\ UNCHANGED busVars

\* Mutant of ShutdownOrder: shutdown walks the nodes in tick order.
ShutdownOrder_forward == order

\* run() step 5: "for each initialized node in reverse priority order".
ShutdownOrder == [q \in 1..Len(order) |-> order[Len(order) + 1 - q]]

\* run() step 5, the call: shutdown(ctx) of the node at position pos; ret is
\* what the node's shutdown() returns.  A "pub" node sends a stop command.
Node_shutdown(n, ret) ==
    /\ phase = "shutdown"
    /\ pos <= Len(order)
    /\ n = ShutdownOrder[pos]
    /\ IF nodes[n].kind = "pub"
       THEN /\ Publisher_send(NodeTopic, StopPayload)
            /\ sentTick' = Append(sentTick, tickNo)
       ELSE /\ res' = [NoRes EXCEPT !.op = "shutdown", !.ok = TRUE]
            /\ UNCHANGED <<regVars, chanVars, histVars, thrVars, sentTick>>
    /\ shutRet' = [shutRet EXCEPT ![n] = ret]
    /\ errLog' = IF ffi_shutdown_callback(ret) = "fail"
                 THEN errLog \cup {<<"ShutdownFault", n>>}
                 ELSE errLog
    /\ nstate' = [nstate EXCEPT ![n] = "Shutdown"]
    /\ calls' = [calls EXCEPT ![n].shutdown = @ + 1]
    /\ shutTrace' = Append(shutTrace, n)
    /\ last' = [cb |-> "shutdown", node |-> n, tick |-> tickNo, raised |-> FALSE]
    /\ pos' = pos + 1
    /\ UNCHANGED <<nodes, phase, order, running, tickNo, ctxOwned, torn, initRet,
                   nodeCursor>>
    /\ UNCHANGED <<tickTrace, ticksAfterStop>>

\* run() step 5, after the last shutdown: unbind all handles, release the
\* channels; run() returns.
run_exit ==
    /\ phase = "shutdown"
    /\ pos > Len(order)
    /\ topicType' = [t \in Topics |-> NoType]
    /\ hasPublisher' = [t \in Topics |-> FALSE]
    /\ createdBy' = [t \in Topics |-> "none"]
    /\ write_seq' = [t \in Topics |-> 0]
    /\ slots' = [t \in Topics |-> EmptySlots(NSlots(t))]
    /\ read_seq' = [t \in Topics |-> << >>]
    /\ dropped' = [t \in Topics |-> << >>]
    /\ delivered' = [t \in Topics |-> << >>]
    /\ ctxOwned' = [n \in NodeIds |-> {}]
    /\ nstate' = [n \in NodeIds |-> IF nstate[n] = "Shutdown" THEN "Gone"
                                    ELSE nstate[n]]
    /\ torn' = TRUE
    /\ phase' = "done"
    /\ last' = NoCall
    /\ res' = NoRes
    /\ UNCHANGED <<nodes, pos, order, running, tickNo, errLog, initRet, shutRet,
                   nodeCursor>>
    /\ UNCHANGED <<calls, tickTrace, shutTrace, ticksAfterStop, sentTick>>
    /\ UNCHANGED <<pubLive, sent, thrVars>>

(***************************************************************************)
(* Specification: an application registers up to three nodes, runs the     *)
(* scheduler and stops it at any moment.                                   *)
(***************************************************************************)
InitSched == InitWith(ModelN)

NextSched ==
    \/ /\ \E k \in KindsOf(Len(nodes) + 1), pr \in Priorities : Scheduler_add(k, pr)
       /\ UNCHANGED extVars
    \/ Scheduler_run /\ UNCHANGED extVars
    \/ Scheduler_stop /\ UNCHANGED extVars
    \/ /\ \E n \in NodeIds, devOk \in BOOLEAN : Node_init(n, devOk)
       /\ UNCHANGED extVars
    \/ run_initResult /\ UNCHANGED extVars
    \/ run_loop /\ UNCHANGED extVars
    \/ (\E n \in NodeIds : Node_tick(n)) /\ UNCHANGED extVars
    \/ /\ \E n \in NodeIds, o \in TickFaultOutcomes : Node_tick_raises(n, o)
       /\ UNCHANGED extVars
    \/ run_endTick /\ UNCHANGED extVars
    \/ /\ \E n \in NodeIds, ret \in {"ok", "fail"} : Node_shutdown(n, ret)
       /\ UNCHANGED extVars
    \/ run_exit /\ UNCHANGED extVars

SpecSched == InitSched /\ [][NextSched]_vars

\* Every callback returns and every enabled scheduler step is taken.
FairSched == SpecSched /\ WF_vars(NextSched)

(***************************************************************************)
(* Round trip of one Twist through a channel slot.  Memory is counted in   *)
(* 4-byte units; send and recv copy S(MSG_TWIST) units from and to the     *)
(* address the wrapper passes, whatever the size of the object there.      *)
(***************************************************************************)
\* ::Twist of horus.h: two Vector3 of three floats.
sizeof_Twist == 6
\* messages::Twist: double linear[3], double angular[3], uint64_t timestamp.
sizeof_messages_Twist == 14

\* The two wrapper headers; each publishes its own Twist as MSG_TWIST.
Apis == {"horus.hpp", "horus_new.hpp"}
SizeOf(api) == IF api = "horus.hpp" THEN sizeof_Twist ELSE sizeof_messages_Twist

\* The stride of a MSG_TWIST channel in the library the program links.
Strides == {sizeof_Twist, sizeof_messages_Twist}

\* linear x, y, z and angular x, y, z.
TwistFields == 1..6
Twist_ctor(lx, ly, lz, ax, ay, az) == <<lx, ly, lz, ax, ay, az>>
Twist_stop == Twist_ctor(0, 0, 0, 0, 0, 0)
Twist_new_2d(lx, az) == Twist_ctor(lx, 0, 0, 0, 0, az)
TwistValues == {Twist_stop, Twist_new_2d(1, 1), Twist_ctor(1, 1, 1, 1, 1, 1)}

\* One unit of memory: all-zero bits, or a tagged half of a value.
ZeroUnit == <<"zero", 0>>
Unit(tag, x) == IF x = 0 THEN ZeroUnit ELSE <<tag, x>>
\* What a field reads as when its units are not the encoding of a value.
Garbage == -1
Timestamps == {5}

\* The units of a Twist object of the given header.
Object(api, v, ts) ==
    IF api = "horus.hpp"
    THEN [u \in 1..sizeof_Twist |-> Unit("f32", v[u])]
    ELSE [u \in 1..sizeof_messages_Twist |->
             IF u <= 12
             THEN Unit(IF u % 2 = 1 THEN "f64lo" ELSE "f64hi", v[(u + 1) \div 2])
             ELSE Unit("u64", ts)]

\* The value of field f read from an object of the given header.
Field(api, obj, f) ==
    IF api = "horus.hpp"
    THEN CASE obj[f] = ZeroUnit -> 0
           [] obj[f][1] = "f32" -> obj[f][2]
           [] OTHER -> Garbage
    ELSE LET lo == obj[2 * f - 1]
             hi == obj[2 * f]
         IN  CASE lo = ZeroUnit /\ hi = ZeroUnit -> 0
               [] lo[1] = "f64lo" /\ hi[1] = "f64hi" /\ lo[2] = hi[2] -> lo[2]
               [] OTHER -> Garbage

\* What the memory after an object may hold.
AdjacentUnits == {ZeroUnit, <<"f32", 1>>}
\* What an access outside the object may do.
OutOfBoundsOutcomes == {"copies", "crash"}

\* recv: the S(T) units of the slot are copied to the destination; units
\* of the destination after them keep what they held.
CopyOut(slot, dst) ==
    [u \in 1..Len(dst) |-> IF u <= Len(slot) THEN slot[u] ELSE dst[u]]

\* A program with one publisher and one subscriber on a MSG_TWIST topic; the
\* slot and the receiver's object hold what earlier traffic left there.
InitRoundTrip ==
    /\ BusInit(ModelN) /\ SchedInit
    /\ wr = NoWrappers /\ LibInit
    /\ \E s \in Strides, pa \in Apis, sa \in Apis, w \in TwistValues,
          fill \in AdjacentUnits :
          rt = [phase |-> "idle", stride |-> s, pubApi |-> pa, subApi |-> sa,
                v |-> Twist_stop, slot |-> [u \in 1..s |-> fill],
                outbuf |-> Object(sa, w, 0), oob |-> FALSE]

\* Publisher<Twist>::send(v): ::send(handle_, &msg) copies stride units
\* starting at the object.
RoundTrip_send(v, outcome) ==
    /\ rt.phase \in {"idle", "received"}
    /\ \E ts \in Timestamps, adj \in AdjacentUnits :
          LET obj == Object(rt.pubApi, v, ts)
              inBounds == rt.stride <= Len(obj)
              src == [u \in 1..rt.stride |-> IF u <= Len(obj) THEN obj[u] ELSE adj]
          IN  /\ inBounds => outcome = "copies"
              /\ rt' = IF outcome = "crash"
                       THEN [rt EXCEPT !.phase = "crashed", !.oob = TRUE]
                       ELSE [rt EXCEPT !.phase = "sent", !.v = v, !.slot = src,
                                       !.oob = (rt.oob \/ ~inBounds)]
    /\ UNCHANGED <<busVars, schedVars, schedHist, wr, libVars>>

\* Subscriber<Twist>::recv(msg): ::recv(handle_, &msg) copies stride units
\* to the object.
RoundTrip_recv(outcome) ==
    /\ rt.phase = "sent"
    /\ LET inBounds == rt.stride <= Len(rt.outbuf)
       IN  /\ inBounds => outcome = "copies"
           /\ rt' = IF outcome = "crash"
                    THEN [rt EXCEPT !.phase = "crashed", !.oob = TRUE]
                    ELSE [rt EXCEPT !.phase = "received",
                                    !.outbuf = CopyOut(rt.slot, rt.outbuf),
                                    !.oob = (rt.oob \/ ~inBounds)]
    /\ UNCHANGED <<busVars, schedVars, schedHist, wr, libVars>>

NextRoundTrip ==
    \/ \E v \in TwistValues, o \in OutOfBoundsOutcomes : RoundTrip_send(v, o)
    \/ \E o \in OutOfBoundsOutcomes : RoundTrip_recv(o)

SpecRoundTrip == InitRoundTrip /\ [][NextRoundTrip]_vars

(***************************************************************************)
(* Publisher / Subscriber wrapper objects of one class (one header, one    *)
(* kind): construction, move, destruction and the calls on them.           *)
(***************************************************************************)
\* Handles the program binds.
MaxHandles == 3

\* The wrapper objects (variables) of the program.
WrapperNames == <<"a", "b", "c">>
Wrappers == 1..Len(WrapperNames)
WrapperKinds == {"Publisher", "Subscriber"}

\* Storage that holds no object.
NoObject == [state |-> "none", handle |-> 0, valid |-> FALSE]
NoEvent == [op |-> "none", dst |-> 0, src |-> 0, handle |-> 0, outcome |-> "none"]

\* valid() of horus.hpp is handle_ != 0; is_valid() of horus_new.hpp is valid_.
is_valid(api, o) == IF api = "horus.hpp" THEN o.handle # 0 ELSE o.valid

\* Mutant of MovedFrom: the source of a move keeps its handle.
MovedFrom_keepsHandle(o) == [o EXCEPT !.state = "moved_from"]

\* The source of a move: other.handle_ = 0 (and other.valid_ = false).
MovedFrom(o) == [o EXCEPT !.state = "moved_from", !.handle = 0, !.valid = FALSE]

\* The destination of a move: handle_(other.handle_), valid_(other.valid_).
MovedTo(o) == [state |-> "moved_to", handle |-> o.handle, valid |-> o.valid]

\* The member functions that pass the handle to the C API.
OpsOf(api, kind) ==
    CASE api = "horus.hpp" /\ kind = "Publisher" -> {"send"}
      [] api = "horus.hpp" /\ kind = "Subscriber" -> {"recv", "try_recv"}
      [] api = "horus_new.hpp" /\ kind = "Publisher" -> {"send", "try_send"}
      [] OTHER -> {"recv"}

\* What a call does before it reaches ::send / ::recv.
CallOutcome(api, op, o) ==
    IF api = "horus.hpp"
    THEN IF o.handle = 0 THEN "throws" ELSE "ffi"
    ELSE IF ~o.valid
         THEN IF op = "send" THEN "throws" ELSE "false"
         ELSE "ffi"

InitMove ==
    /\ BusInit(ModelN) /\ SchedInit
    /\ rt = NoRoundTrip /\ LibInit
    /\ \E api \in Apis, kind \in WrapperKinds :
          wr = [phase |-> "on", api |-> api, kind |-> kind,
                obj |-> [w \in Wrappers |-> NoObject],
                handles |-> 0, last |-> NoEvent]

moveFrame == UNCHANGED <<busVars, schedVars, schedHist, rt, libVars>>

\* Publisher(topic) / Subscriber(topic): binds and holds the new handle.
Wrapper_ctor(w) ==
    /\ wr.obj[w].state = "none"
    /\ wr.handles < MaxHandles
    /\ wr' = [wr EXCEPT !.handles = wr.handles + 1,
                        !.obj[w] = [state |-> "constructed",
                                    handle |-> wr.handles + 1, valid |-> TRUE],
                        !.last = [NoEvent EXCEPT !.op = "ctor", !.dst = w,
                                                 !.handle = wr.handles + 1]]
    /\ moveFrame

\* Publisher() / Subscriber() of horus_new.hpp: handle_(0), valid_(false).
Wrapper_default_ctor(w) ==
    /\ wr.api = "horus_new.hpp"
    /\ wr.obj[w].state = "none"
    /\ wr' = [wr EXCEPT !.obj[w] = [state |-> "default", handle |-> 0,
                                    valid |-> FALSE],
                        !.last = [NoEvent EXCEPT !.op = "default_ctor", !.dst = w]]
    /\ moveFrame

\* Publisher(Publisher&& other): dst is constructed from src.
Wrapper_move_ctor(dst, src) ==
    /\ dst # src
    /\ wr.obj[dst].state = "none"
    /\ wr.obj[src].state # "none"
    /\ wr' = [wr EXCEPT !.obj[dst] = MovedTo(wr.obj[src]),
                        !.obj[src] = MovedFrom(wr.obj[src]),
                        !.last = [NoEvent EXCEPT !.op = "move_ctor", !.dst = dst,
                                                 !.src = src,
                                                 !.handle = wr.obj[src].handle]]
    /\ moveFrame

\* operator=(Publisher&& other): guarded by this != &other.
Wrapper_move_assign(dst, src) ==
    /\ wr.obj[dst].state # "none"
    /\ wr.obj[src].state # "none"
    /\ wr' = [wr EXCEPT !.obj = IF dst # src
                                THEN [@ EXCEPT ![dst] = MovedTo(wr.obj[src]),
                                               ![src] = MovedFrom(wr.obj[src])]
                                ELSE @,
                        !.last = [NoEvent EXCEPT !.op = "move_assign", !.dst = dst,
                                                 !.src = src,
                                                 !.handle = wr.obj[src].handle]]
    /\ moveFrame

\* ~Publisher() / ~Subscriber(): the object ends, nothing is released.
Wrapper_dtor(w) ==
    /\ wr.obj[w].state # "none"
    /\ wr' = [wr EXCEPT !.obj[w] = NoObject,
                        !.last = [NoEvent EXCEPT !.op = "dtor", !.dst = w]]
    /\ moveFrame

\* send / try_send / recv / try_recv on a wrapper object.
Wrapper_call(w, op) ==
    /\ wr.obj[w].state # "none"
    /\ op \in OpsOf(wr.api, wr.kind)
    /\ wr' = [wr EXCEPT !.last = [op |-> op, dst |-> w, src |-> 0,
                                  handle |-> wr.obj[w].handle,
                                  outcome |-> CallOutcome(wr.api, op, wr.obj[w])]]
    /\ moveFrame

NextMove ==
    \/ \E w \in Wrappers : Wrapper_ctor(w)
    \/ \E w \in Wrappers : Wrapper_default_ctor(w)
    \/ \E d \in Wrappers, s \in Wrappers : Wrapper_move_ctor(d, s)
    \/ \E d \in Wrappers, s \in Wrappers : Wrapper_move_assign(d, s)
    \/ \E w \in Wrappers : Wrapper_dtor(w)
    \/ \E w \in Wrappers, op \in {"send", "try_send", "recv", "try_recv"} :
          Wrapper_call(w, op)

SpecMove == InitMove /\ [][NextMove]_vars

(***************************************************************************)
(* Scheduler wrapper objects: construction, move, destruction, and the     *)
(* scheduler_destroy calls they make.                                      *)
(***************************************************************************)
\* Storage that holds no Scheduler object.
NoScheduler == [state |-> "none", handle |-> 0]
NoOwnerEvent == [op |-> "none", dst |-> 0, src |-> 0, handle |-> 0, state |-> "none"]

\* Mutant of DestroyIfHeld: scheduler_destroy is called without the guard.
DestroyIfHeld_unguarded(d, h) == [d EXCEPT ![h] = @ + 1]

\* if (handle_ != 0) scheduler_destroy(handle_): the count of
\* scheduler_destroy calls per handle after it.
DestroyIfHeld(d, h) == IF h # 0 THEN [d EXCEPT ![h] = @ + 1] ELSE d

InitSchedulerOwner ==
    /\ BusInit(ModelN) /\ SchedInit
    /\ rt = NoRoundTrip /\ wr = NoWrappers
    /\ msg = NoMessage /\ clk = NoClock
    /\ \E api \in Apis :
          own = [phase |-> "on", class |-> "Scheduler", api |-> api,
                 obj |-> [w \in Wrappers |-> NoScheduler],
                 created |-> 0,
                 destroyed |-> [h \in 0..MaxHandles |-> 0],
                 last |-> NoOwnerEvent]

ownFrame == UNCHANGED <<busVars, schedVars, schedHist, rt, wr, msg, clk>>

\* Scheduler(): handle_(scheduler_create(name)); throws when it returns 0.
Scheduler_ctor(w, created) ==
    /\ own.obj[w].state = "none"
    /\ own.created < MaxHandles
    /\ own' = IF created
              THEN [own EXCEPT !.created = own.created + 1,
                               !.obj[w] = [state |-> "constructed",
                                           handle |-> own.created + 1],
                               !.last = [NoOwnerEvent EXCEPT !.op = "ctor", !.dst = w,
                                            !.handle = own.created + 1]]
              ELSE [own EXCEPT !.last = [NoOwnerEvent EXCEPT !.op = "ctor_throws",
                                                            !.dst = w]]
    /\ ownFrame

\* ~Scheduler().
Scheduler_dtor(w) ==
    /\ own.obj[w].state # "none"
    /\ own' = [own EXCEPT !.destroyed = DestroyIfHeld(@, own.obj[w].handle),
                          !.obj[w] = NoScheduler,
                          !.last = [op |-> "dtor", dst |-> w, src |-> 0,
                                    handle |-> own.obj[w].handle,
                                    state |-> own.obj[w].state]]
    /\ ownFrame

\* Scheduler(Scheduler&& other): handle_(other.handle_); other.handle_ = 0.
Scheduler_move_ctor(dst, src) ==
    /\ dst # src
    /\ own.obj[dst].state = "none"
    /\ own.obj[src].state # "none"
    /\ own' = [own EXCEPT !.obj[dst] = [state |-> "moved_to",
                                        handle |-> own.obj[src].handle],
                          !.obj[src] = [state |-> "moved_from", handle |-> 0],
                          !.last = [op |-> "move_ctor", dst |-> dst, src |-> src,
                                    handle |-> own.obj[src].handle,
                                    state |-> own.obj[src].state]]
    /\ ownFrame

\* operator=(Scheduler&& other): destroys the handle it held, takes other's.
Scheduler_move_assign(dst, src) ==
    /\ own.obj[dst].state # "none"
    /\ own.obj[src].state # "none"
    /\ own' = IF dst # src
              THEN [own EXCEPT !.destroyed = DestroyIfHeld(@, own.obj[dst].handle),
                               !.obj[dst] = [state |-> "moved_to",
                                             handle |-> own.obj[src].handle],
                               !.obj[src] = [state |-> "moved_from", handle |-> 0],
                               !.last = [op |-> "move_assign", dst |-> dst,
                                         src |-> src,
                                         handle |-> own.obj[src].handle,
                                         state |-> own.obj[src].state]]
              ELSE [own EXCEPT !.last = [op |-> "move_assign", dst |-> dst,
                                         src |-> src,
                                         handle |-> own.obj[src].handle,
                                         state |-> own.obj[src].state]]
    /\ ownFrame

NextSchedulerOwner ==
    \/ \E w \in Wrappers, c \in BOOLEAN : Scheduler_ctor(w, c)
    \/ \E w \in Wrappers : Scheduler_dtor(w)
    \/ \E d \in Wrappers, s \in Wrappers : Scheduler_move_ctor(d, s)
    \/ \E d \in Wrappers, s \in Wrappers : Scheduler_move_assign(d, s)

SpecSchedulerOwner == InitSchedulerOwner /\ [][NextSchedulerOwner]_vars

(***************************************************************************)
(* horus::System objects: construction, move, destruction, and the global  *)
(* init() / shutdown() calls they make.                                    *)
(***************************************************************************)
\* Successful init() calls and shutdown() calls the program makes.
MaxInits == 2
MaxShutdowns == 3

\* Storage that holds no System object.
NoSystem == [state |-> "none", moved_from_ |-> FALSE]

InitSystem ==
    /\ BusInit(ModelN) /\ SchedInit
    /\ rt = NoRoundTrip /\ wr = NoWrappers
    /\ msg = NoMessage /\ clk = NoClock
    /\ own = [phase |-> "on", class |-> "System",
              obj |-> [w \in Wrappers |-> NoSystem],
              inits |-> 0, shutdowns |-> 0,
              last |-> [op |-> "none", dst |-> 0, src |-> 0,
                        moved_from_ |-> FALSE, shutdown |-> FALSE]]

\* System(node_name): init(); throws when it returns false.
System_ctor(w, ok) ==
    /\ own.obj[w].state = "none"
    /\ own.inits < MaxInits
    /\ own' = IF ok
              THEN [own EXCEPT !.inits = own.inits + 1,
                               !.obj[w] = [state |-> "constructed",
                                           moved_from_ |-> FALSE],
                               !.last = [op |-> "ctor", dst |-> w, src |-> 0,
                                         moved_from_ |-> FALSE, shutdown |-> FALSE]]
              ELSE [own EXCEPT !.last = [op |-> "ctor_throws", dst |-> w, src |-> 0,
                                         moved_from_ |-> FALSE, shutdown |-> FALSE]]
    /\ ownFrame

\* ~System() { shutdown(); }
System_dtor(w) ==
    /\ own.obj[w].state # "none"
    /\ own.shutdowns < MaxShutdowns
    /\ own' = [own EXCEPT !.shutdowns = own.shutdowns + 1,
                          !.obj[w] = NoSystem,
                          !.last = [op |-> "dtor", dst |-> w, src |-> 0,
                                    moved_from_ |-> own.obj[w].moved_from_,
                                    shutdown |-> TRUE]]
    /\ ownFrame

\* System(System&& other): moved_from_(false); other.moved_from_ = true.
System_move_ctor(dst, src) ==
    /\ dst # src
    /\ own.obj[dst].state = "none"
    /\ own.obj[src].state # "none"
    /\ own' = [own EXCEPT !.obj[dst] = [state |-> "moved_to", moved_from_ |-> FALSE],
                          !.obj[src] = [state |-> "moved_from", moved_from_ |-> TRUE],
                          !.last = [op |-> "move_ctor", dst |-> dst, src |-> src,
                                    moved_from_ |-> own.obj[src].moved_from_,
                                    shutdown |-> FALSE]]
    /\ ownFrame

\* operator=(System&& other): shutdown() unless this was moved from.
System_move_assign(dst, src) ==
    /\ own.obj[dst].state # "none"
    /\ own.obj[src].state # "none"
    /\ LET callsShutdown == dst # src /\ ~own.obj[dst].moved_from_
       IN  /\ callsShutdown => own.shutdowns < MaxShutdowns
           /\ own' = [own EXCEPT
                 !.shutdowns = IF callsShutdown THEN @ + 1 ELSE @,
                 !.obj = IF dst # src
                         THEN [@ EXCEPT ![dst] = [state |-> "moved_to",
                                                  moved_from_ |-> FALSE],
                                        ![src] = [state |-> "moved_from",
                                                  moved_from_ |-> TRUE]]
                         ELSE @,
                 !.last = [op |-> "move_assign", dst |-> dst, src |-> src,
                           moved_from_ |-> own.obj[src].moved_from_,
                           shutdown |-> callsShutdown]]
    /\ ownFrame

NextSystem ==
    \/ \E w \in Wrappers, ok \in BOOLEAN : System_ctor(w, ok)
    \/ \E w \in Wrappers : System_dtor(w)
    \/ \E d \in Wrappers, s \in Wrappers : System_move_ctor(d, s)
    \/ \E d \in Wrappers, s \in Wrappers : System_move_assign(d, s)

SpecSystem == InitSystem /\ [][NextSystem]_vars

(***************************************************************************)
(* OccupancyGrid: init, grid_to_world, world_to_grid.  uint32_t products   *)
(* are computed modulo 2^32 from 16-bit halves; world coordinates are      *)
(* kept doubled (x2 = 2x), which is exact for the integer resolutions and  *)
(* origins used here.                                                      *)
(***************************************************************************)
\* OccupancyGrid::MAX_CELLS = 2000 * 2000.
MAX_CELLS == 4000000

Two16 == 65536
Lo16(x) == x % Two16
Hi16(x) == x \div Two16

\* x * y mod 2^16 for x, y < 2^16.
MulMod16(x, y) ==
    LET x1 == x \div 256
        x0 == x % 256
        y1 == y \div 256
        y0 == y % 256
    IN  ((x1 * y0 + x0 * y1) * 256 + x0 * y0) % Two16

\* x * y for x, y < 2^16, as <<high half, low half>>.
MulFull16(x, y) ==
    LET x1 == x \div 256
        x0 == x % 256
        y1 == y \div 256
        y0 == y % 256
        t == (x1 * y0 + x0 * y1) * 256 + x0 * y0
    IN  <<(x1 * y1 + t \div Two16) % Two16, t % Two16>>

\* The uint32_t product w * h, as <<high half, low half>>.
Mul32(w, h) ==
    LET bd == MulFull16(Lo16(w), Lo16(h))
    IN  <<(bd[1] + MulMod16(Hi16(w), Lo16(h)) + MulMod16(Lo16(w), Hi16(h))) % Two16,
          bd[2]>>

\* p > n, for a uint32_t p given in halves.
Greater32(p, n) == p[1] > Hi16(n) \/ (p[1] = Hi16(n) /\ p[2] > Lo16(n))
Value32(p) == p[1] * Two16 + p[2]

\* The product of w and h over the integers is at most n / equals n.
TrueProductAtMost(w, h, n) == w = 0 \/ h = 0 \/ (w <= n /\ h <= n \div w)
TrueProductEquals(w, h, n) ==
    IF w = 0 \/ h = 0 THEN n = 0 ELSE n % w = 0 /\ n \div w = h

GridDims == {0, 2, 3, 2000, 2001, 65536, 65537}
GridCells == {0, 1, 2, 3, 2000}
Resolutions == {0, 1, 2}
Origins == {<<0, 0>>, <<-3, 5>>}
\* What the caller's output variables hold before a call.
Unset == -7

\* OccupancyGrid(): width, height and data_length 0; resolution is 0.05f,
\* which none of the operations reads before init() replaces it.
OccupancyGrid_ctor ==
    [type |-> "OccupancyGrid", width |-> 0, height |-> 0, resolution |-> 1,
     origin |-> <<0, 0>>, data_length |-> 0, memset_len |-> 0,
     last |-> [op |-> "ctor", ret |-> TRUE, in |-> <<0, 0>>, out |-> <<0, 0>>]]

InitGrid ==
    /\ BusInit(ModelN) /\ SchedInit
    /\ rt = NoRoundTrip /\ wr = NoWrappers
    /\ own = NoOwners /\ clk = NoClock
    /\ msg = OccupancyGrid_ctor

msgFrame == UNCHANGED <<busVars, schedVars, schedHist, rt, wr, own, clk>>

\* init(w, h, res, orig).
OccupancyGrid_init(w, h, resol, orig) ==
    /\ msg.type = "OccupancyGrid"
    /\ msg' = IF Greater32(Mul32(w, h), MAX_CELLS)
              THEN [msg EXCEPT !.last = [op |-> "init", ret |-> FALSE,
                                         in |-> <<w, h>>, out |-> <<0, 0>>]]
              ELSE [msg EXCEPT !.width = w, !.height = h, !.resolution = resol,
                               !.origin = orig,
                               !.data_length = Value32(Mul32(w, h)),
                               !.memset_len = Value32(Mul32(w, h)),
                               !.last = [op |-> "init", ret |-> TRUE,
                                         in |-> <<w, h>>, out |-> <<0, 0>>]]
    /\ msgFrame

\* grid_to_world(grid_x, grid_y, x, y): the centre of the cell.
OccupancyGrid_grid_to_world(grid_x, grid_y) ==
    /\ msg.type = "OccupancyGrid"
    /\ msg' = IF grid_x < msg.width /\ grid_y < msg.height
              THEN [msg EXCEPT !.last =
                       [op |-> "grid_to_world", ret |-> TRUE,
                        in |-> <<grid_x, grid_y>>,
                        out |-> <<2 * msg.origin[1] + (2 * grid_x + 1) * msg.resolution,
                                  2 * msg.origin[2] + (2 * grid_y + 1) * msg.resolution>>]]
              ELSE [msg EXCEPT !.last =
                       [op |-> "grid_to_world", ret |-> FALSE,
                        in |-> <<grid_x, grid_y>>, out |-> <<Unset, Unset>>]]
    /\ msgFrame

\* floor(n / d) for d # 0.
FloorDiv(n, d) == IF d > 0 THEN n \div d ELSE (0 - n) \div (0 - d)

\* What static_cast<int32_t> of a NaN may produce.
NaNCasts == {-2147483647 - 1, 0}

\* static_cast<int32_t>(floor((x - origin) / resolution + EPSILON)); the
\* quotient is a multiple of 1/4 here, so EPSILON does not change the floor.
GridIndex(x2, o, resol, nan) ==
    IF resol = 0 THEN nan ELSE FloorDiv(x2 - 2 * o, 2 * resol)

\* world_to_grid(x, y, grid_x, grid_y), applied to what grid_to_world
\* returned last.
OccupancyGrid_world_to_grid(nan) ==
    /\ msg.type = "OccupancyGrid"
    /\ msg.last.op = "grid_to_world" /\ msg.last.ret
    /\ LET gx == GridIndex(msg.last.out[1], msg.origin[1], msg.resolution, nan)
           gy == GridIndex(msg.last.out[2], msg.origin[2], msg.resolution, nan)
       IN  msg' = IF gx >= 0 /\ gx < msg.width /\ gy >= 0 /\ gy < msg.height
                  THEN [msg EXCEPT !.last = [op |-> "world_to_grid", ret |-> TRUE,
                                             in |-> msg.last.out,
                                             out |-> <<gx, gy>>]]
                  ELSE [msg EXCEPT !.last = [op |-> "world_to_grid", ret |-> FALSE,
                                             in |-> msg.last.out,
                                             out |-> <<Unset, Unset>>]]
    /\ msgFrame

NextGrid ==
    \/ \E w \in GridDims, h \in GridDims, resol \in Resolutions, o \in Origins :
          OccupancyGrid_init(w, h, resol, o)
    \/ \E gx \in GridCells, gy \in GridCells : OccupancyGrid_grid_to_world(gx, gy)
    \/ \E nan \in NaNCasts : OccupancyGrid_world_to_grid(nan)

SpecGrid == InitGrid /\ [][NextGrid]_vars

(***************************************************************************)
(* Fixed-capacity array messages: JointCommand, Path, DetectionArray,      *)
(* PlaneArray.  The array is represented by the write the last call made.  *)
(***************************************************************************)
ArrayTypes == {"JointCommand", "Path", "DetectionArray", "PlaneArray"}

\* The inline capacity the add functions compare the count with.
Capacity(type) ==
    CASE type = "JointCommand" -> 16
      [] type = "Path" -> 256
      [] type = "DetectionArray" -> 32
      [] OTHER -> 16

\* Elements the caller passes to add.
Elements == {1, 2}
NoWrite == <<-1, 0>>

\* Mutant of IsFull: the guard lets one more element in.
IsFull_offByOne(type, count) == count > Capacity(type)

\* if (count >= capacity) return false.
IsFull(type, count) == count >= Capacity(type)

InitArray ==
    /\ BusInit(ModelN) /\ SchedInit
    /\ rt = NoRoundTrip /\ wr = NoWrappers
    /\ own = NoOwners /\ clk = NoClock
    /\ \E type \in ArrayTypes :
          msg = [type |-> type, count |-> 0,
                 last |-> [op |-> "ctor", ret |-> TRUE, write |-> NoWrite]]

\* The body shared by the add functions: guard, store at index count,
\* increment.
add(e) ==
    /\ msg' = IF IsFull(msg.type, msg.count)
              THEN [msg EXCEPT !.last = [op |-> "add", ret |-> FALSE,
                                         write |-> NoWrite]]
              ELSE [msg EXCEPT !.count = msg.count + 1,
                               !.last = [op |-> "add", ret |-> TRUE,
                                         write |-> <<msg.count, e>>]]
    /\ msgFrame

\* add_position / add_velocity / add_effort.
JointCommand_add_position(e) == msg.type = "JointCommand" /\ add(e)
Path_add_waypoint(e) == msg.type = "Path" /\ add(e)
DetectionArray_add_detection(e) == msg.type = "DetectionArray" /\ add(e)
PlaneArray_add_plane(e) == msg.type = "PlaneArray" /\ add(e)

\* clear(): the count is set to 0, the elements stay.
Array_clear ==
    /\ msg.type \in ArrayTypes
    /\ msg' = [msg EXCEPT !.count = 0,
                          !.last = [op |-> "clear", ret |-> TRUE, write |-> NoWrite]]
    /\ msgFrame

NextArray ==
    \/ \E e \in Elements : JointCommand_add_position(e)
    \/ \E e \in Elements : Path_add_waypoint(e)
    \/ \E e \in Elements : DetectionArray_add_detection(e)
    \/ \E e \in Elements : PlaneArray_add_plane(e)
    \/ Array_clear

SpecArray == InitArray /\ [][NextArray]_vars

(***************************************************************************)
(* Inline string fields: Odometry, Status, EmergencyStop, JointCommand.    *)
(* A field is its char array; f1 and f2 are the two fields of the object,  *)
(* want1 and want2 the strings last passed for them.                       *)
(***************************************************************************)
NUL == 0
StringTypes == {"Odometry", "Status", "EmergencyStop", "JointCommand"}

\* sizeof of the two fields: frame_id / child_frame_id, message / component,
\* reason / source, joint_names[0] / joint_names[1].
SizeofField1(type) ==
    CASE type = "Status" -> 128
      [] type = "EmergencyStop" -> 64
      [] OTHER -> 32
SizeofField2(type) == 32

\* The C strings the caller passes: n times the char c.
Chars == {97, 98}
InputLengths == {0, 2, 31, 32, 33, 63, 64, 127, 128, 129}
Str(c, n) == [i \in 1..n |-> c]
InputStrings == {Str(c, n) : c \in Chars, n \in InputLengths}

Min(a, b) == IF a < b THEN a ELSE b

\* Mutant of strncpy: the destination is not padded with NUL up to n.
strncpy_noPad(dst, src, n) ==
    [i \in 1..Len(dst) |-> IF i <= Min(Len(src), n) THEN src[i] ELSE dst[i]]

\* std::strncpy(dst, src, n): at most n chars of src, then NUL up to n
\* chars in all; the chars of dst after the n-th are not written.
strncpy(dst, src, n) ==
    [i \in 1..Len(dst) |->
        IF i <= Min(Len(src), n) THEN src[i]
        ELSE IF i <= n THEN NUL ELSE dst[i]]

\* std::memset(field, 0, sizeof(field)).
memset0(size) == [i \in 1..size |-> NUL]

\* The C string a reader of the field sees: the chars before the first NUL.
RECURSIVE strlen(_, _)
strlen(buf, i) ==
    IF i > Len(buf) \/ buf[i] = NUL THEN i - 1 ELSE strlen(buf, i + 1)
CStr(buf) == SubSeq(buf, 1, strlen(buf, 1))

\* "odom" and "base_link", the names the Odometry constructor sets.
odom == <<111, 100, 111, 109>>
base_link == <<98, 97, 115, 101, 95, 108, 105, 110, 107>>

NoStringCall == [op |-> "ctor", before |-> 0]

\* The default-constructed object of each type.
InitStrings ==
    /\ BusInit(ModelN) /\ SchedInit
    /\ rt = NoRoundTrip /\ wr = NoWrappers
    /\ own = NoOwners /\ clk = NoClock
    /\ \E type \in StringTypes :
          msg = IF type = "Odometry"
                THEN [type |-> type, joint_count |-> 0,
                      f1 |-> strncpy(memset0(32), odom, 31),
                      f2 |-> strncpy(memset0(32), base_link, 31),
                      want1 |-> odom, want2 |-> base_link, last |-> NoStringCall]
                ELSE [type |-> type, joint_count |-> 0,
                      f1 |-> memset0(SizeofField1(type)),
                      f2 |-> memset0(SizeofField2(type)),
                      want1 |-> << >>, want2 |-> << >>, last |-> NoStringCall]

\* set_frame_id(frame): memset, then strncpy of sizeof - 1 chars.
Odometry_set_frame_id(s) ==
    /\ msg.type = "Odometry"
    /\ msg' = [msg EXCEPT !.f1 = strncpy(memset0(Len(msg.f1)), s, Len(msg.f1) - 1),
                          !.want1 = s,
                          !.last = [op |-> "set_frame_id",
                                    before |-> Len(CStr(msg.f1))]]
    /\ msgFrame

Odometry_set_child_frame_id(s) ==
    /\ msg.type = "Odometry"
    /\ msg' = [msg EXCEPT !.f2 = strncpy(memset0(Len(msg.f2)), s, Len(msg.f2) - 1),
                          !.want2 = s,
                          !.last = [op |-> "set_child_frame_id",
                                    before |-> Len(CStr(msg.f2))]]
    /\ msgFrame

\* Status::ok(msg) (warn, error, fatal alike): a new Status, then strncpy
\* of sizeof - 1 chars into message.
Status_ok(s) ==
    /\ msg.type = "Status"
    /\ msg' = [msg EXCEPT !.f1 = strncpy(memset0(128), s, 128 - 1),
                          !.f2 = memset0(32),
                          !.want1 = s, !.want2 = << >>,
                          !.last = [op |-> "ok", before |-> 0]]
    /\ msgFrame

\* set_component(comp): strncpy of sizeof - 1 chars, no memset.
Status_set_component(s) ==
    /\ msg.type = "Status"
    /\ msg' = [msg EXCEPT !.f2 = strncpy(msg.f2, s, Len(msg.f2) - 1),
                          !.want2 = s,
                          !.last = [op |-> "set_component",
                                    before |-> Len(CStr(msg.f2))]]
    /\ msgFrame

\* EmergencyStop::engage(rsn): a new EmergencyStop, then strncpy into reason.
EmergencyStop_engage(s) ==
    /\ msg.type = "EmergencyStop"
    /\ msg' = [msg EXCEPT !.f1 = strncpy(memset0(64), s, 64 - 1),
                          !.f2 = memset0(32),
                          !.want1 = s, !.want2 = << >>,
                          !.last = [op |-> "engage", before |-> 0]]
    /\ msgFrame

\* set_source(src): strncpy of sizeof - 1 chars, no memset.
EmergencyStop_set_source(s) ==
    /\ msg.type = "EmergencyStop"
    /\ msg' = [msg EXCEPT !.f2 = strncpy(msg.f2, s, Len(msg.f2) - 1),
                          !.want2 = s,
                          !.last = [op |-> "set_source",
                                    before |-> Len(CStr(msg.f2))]]
    /\ msgFrame

\* The name part of add_position / add_velocity / add_effort:
\* strncpy(joint_names[idx], name, 31); joint_names[idx][31] = '\0'.
SetJointName(buf, s) == [strncpy(buf, s, 31) EXCEPT ![32] = NUL]

JointCommand_add_velocity(s) ==
    /\ msg.type = "JointCommand"
    /\ msg' = IF msg.joint_count >= 16
              THEN [msg EXCEPT !.last = [op |-> "add_full", before |-> 0]]
              ELSE [msg EXCEPT
                      !.joint_count = @ + 1,
                      !.f1 = IF msg.joint_count = 0 THEN SetJointName(@, s) ELSE @,
                      !.want1 = IF msg.joint_count = 0 THEN s ELSE @,
                      !.f2 = IF msg.joint_count = 1 THEN SetJointName(@, s) ELSE @,
                      !.want2 = IF msg.joint_count = 1 THEN s ELSE @,
                      !.last = [op |-> "add_velocity",
                                before |-> IF msg.joint_count = 0
                                           THEN Len(CStr(msg.f1))
                                           ELSE IF msg.joint_count = 1
                                                THEN Len(CStr(msg.f2)) ELSE 0]]
    /\ msgFrame

\* clear(): joint_count = 0; the names stay.
JointCommand_clear ==
    /\ msg.type = "JointCommand"
    /\ msg.joint_count > 0
    /\ msg' = [msg EXCEPT !.joint_count = 0,
                          !.last = [op |-> "clear", before |-> 0]]
    /\ msgFrame

NextStrings ==
    \/ \E s \in InputStrings : Odometry_set_frame_id(s)
    \/ \E s \in InputStrings : Odometry_set_child_frame_id(s)
    \/ \E s \in InputStrings : Status_ok(s)
    \/ \E s \in InputStrings : Status_set_component(s)
    \/ \E s \in InputStrings : EmergencyStop_engage(s)
    \/ \E s \in InputStrings : EmergencyStop_set_source(s)
    \/ \E s \in InputStrings : JointCommand_add_velocity(s)
    \/ JointCommand_clear

SpecStrings == InitStrings /\ [][NextStrings]_vars

(***************************************************************************)
(* Publisher<Twist> / Subscriber<Twist> objects with a node context, and   *)
(* the log sink their calls reach.                                         *)
(***************************************************************************)
\* Records the log sink holds; a record appended to a full sink drops the
\* oldest.
LogCapacity == 2

\* The HorusNodeContext* values: nullptr and the context of a node.
nullptr == 0
NodeCtx == 1

NoCtxObject == [state |-> "none", handle |-> 0, ctx_ |-> nullptr, origin |-> "none"]
NoCtxEvent == [op |-> "none", dst |-> 0, outcome |-> "none"]

\* Appending to the bounded sink.
LogAppend(log, rec) ==
    IF Len(log) < LogCapacity THEN Append(log, rec) ELSE Append(Tail(log), rec)

\* Mutant of UsesContext: every call takes the context-aware route.
UsesContext_always(o) == TRUE

\* if (ctx_) node_send(ctx_, handle_, &data) else send(handle_, &data).
UsesContext(o) == o.ctx_ # nullptr

\* What an object is after it took over o: the holder of o's handle, or
\* as empty as a moved-from object when o held none.
Received(o) == IF o.handle = 0 THEN "moved_from" ELSE "moved_to"

InitCtx ==
    /\ BusInit(ModelN) /\ SchedInit
    /\ rt = NoRoundTrip /\ LibInit
    /\ \E api \in Apis, kind \in WrapperKinds :
          wr = [phase |-> "ctx", api |-> api, kind |-> kind,
                obj |-> [w \in Wrappers |-> NoCtxObject],
                handles |-> 0, log |-> << >>, last |-> NoCtxEvent]

\* Publisher<Twist>(topic, ctx): standalone with ctx = nullptr, through
\* NodeContext::create_publisher with the node's context.  horus_new.hpp
\* has the standalone constructor only.
Ctx_ctor(w, ctx) ==
    /\ wr.phase = "ctx"
    /\ wr.obj[w].state = "none"
    /\ wr.handles < MaxHandles
    /\ wr.api = "horus_new.hpp" => ctx = nullptr
    /\ wr' = [wr EXCEPT !.handles = wr.handles + 1,
                        !.obj[w] = [state |-> "constructed",
                                    handle |-> wr.handles + 1, ctx_ |-> ctx,
                                    origin |-> IF ctx = nullptr THEN "standalone"
                                               ELSE "context"],
                        !.last = [op |-> "ctor", dst |-> w, outcome |-> "none"]]
    /\ moveFrame

\* Publisher(Publisher&& other): handle_(other.handle_), ctx_(other.ctx_);
\* other.handle_ = 0; other.ctx_ = nullptr.
Ctx_move_ctor(dst, src) ==
    /\ wr.phase = "ctx"
    /\ dst # src
    /\ wr.obj[dst].state = "none"
    /\ wr.obj[src].state # "none"
    /\ wr' = [wr EXCEPT !.obj[dst] = [wr.obj[src] EXCEPT !.state = Received(wr.obj[src])],
                        !.obj[src] = [state |-> "moved_from", handle |-> 0,
                                      ctx_ |-> nullptr,
                                      origin |-> wr.obj[src].origin],
                        !.last = [op |-> "move_ctor", dst |-> dst,
                                  outcome |-> "none"]]
    /\ moveFrame

\* operator=(Publisher&& other), guarded by this != &other.
Ctx_move_assign(dst, src) ==
    /\ wr.phase = "ctx"
    /\ wr.obj[dst].state # "none"
    /\ wr.obj[src].state # "none"
    /\ wr' = [wr EXCEPT !.obj = IF dst # src
                                THEN [@ EXCEPT
                                        ![dst] = [wr.obj[src] EXCEPT
                                                    !.state = Received(wr.obj[src])],
                                        ![src] = [state |-> "moved_from",
                                                  handle |-> 0, ctx_ |-> nullptr,
                                                  origin |-> wr.obj[src].origin]]
                                ELSE @,
                        !.last = [op |-> "move_assign", dst |-> dst,
                                  outcome |-> "none"]]
    /\ moveFrame

\* send / recv on the object: the guard, then node_send / node_recv, which
\* emit one log record, or send / recv, which emit none.
Ctx_call(w) ==
    /\ wr.phase = "ctx"
    /\ wr.obj[w].state # "none"
    /\ LET o == wr.obj[w]
           op == IF wr.kind = "Publisher" THEN "send" ELSE "recv"
           refused == o.handle = 0
       IN  wr' = IF refused
                 THEN [wr EXCEPT !.last = [op |-> op, dst |-> w,
                                           outcome |-> CallOutcome(wr.api, op,
                                                          [handle |-> o.handle,
                                                           valid |-> FALSE])]]
                 ELSE IF UsesContext(o)
                 THEN [wr EXCEPT !.log = LogAppend(@, [op |-> op, ctx |-> o.ctx_,
                                                      handle |-> o.handle]),
                                 !.last = [op |-> op, dst |-> w,
                                           outcome |-> "node_ffi"]]
                 ELSE [wr EXCEPT !.last = [op |-> op, dst |-> w,
                                           outcome |-> "ffi"]]
    /\ moveFrame

NextCtx ==
    \/ \E w \in Wrappers, c \in {nullptr, NodeCtx} : Ctx_ctor(w, c)
    \/ \E d \in Wrappers, s \in Wrappers : Ctx_move_ctor(d, s)
    \/ \E d \in Wrappers, s \in Wrappers : Ctx_move_assign(d, s)
    \/ \E w \in Wrappers : Ctx_call(w)

SpecCtx == InitCtx /\ [][NextCtx]_vars

(***************************************************************************)
(* The scheduler's clock: run() steps 3 and 4 with time as integers.  One  *)
(* unit of time is a third of the period at Period == 3; a pass over the   *)
(* nodes takes any duration from 0 to three periods.                       *)
(***************************************************************************)
Period == 3
MaxTime == 30
MaxDuration == 3 * Period
StartTimes == 0 .. 1
Durations == 0 .. MaxDuration

NoPass == [op |-> "start", finished |-> 0, due |-> 0, slept |-> FALSE,
           slow |-> FALSE]

\* Step 3: next_deadline = now() + period.
InitClock ==
    /\ BusInit(ModelN) /\ SchedInit
    /\ rt = NoRoundTrip /\ wr = NoWrappers
    /\ own = NoOwners /\ msg = NoMessage
    /\ \E t \in StartTimes :
          clk = [phase |-> "on", pc |-> "tick", now |-> t,
                 next_deadline |-> t + Period, slow |-> FALSE,
                 last |-> NoPass]

clkFrame == UNCHANGED <<busVars, schedVars, schedHist, rt, wr, own, msg>>

\* Step 4a: the pass over the initialized nodes takes d; slow records that
\* the duration of some tick of the pass exceeded the period (a warning is
\* logged and the loop does not sleep), which needs d > period.
Clock_tick(d, slow) ==
    /\ clk.phase = "on" /\ clk.pc = "tick"
    /\ clk.now + d <= MaxTime
    /\ slow => d > Period
    /\ clk' = [clk EXCEPT !.now = @ + d, !.slow = slow, !.pc = "end"]
    /\ clkFrame

\* Step 4b, first sentence: sleep until next_deadline when it is ahead.
Sleeps(c) == ~c.slow /\ c.now < c.next_deadline

SleepUntil(c) == IF Sleeps(c) THEN c.next_deadline ELSE c.now

Reschedule_accumulates(t, deadline) == deadline

\* Step 4b, last sentence: when now() has already passed the advanced
\* deadline, the deadline becomes now() + period.
Reschedule(t, deadline) == IF t > deadline THEN t + Period ELSE deadline

\* Step 4b as a whole: sleep, advance by one period, reset on overrun.
Clock_endTick ==
    /\ clk.phase = "on" /\ clk.pc = "end"
    /\ LET t == SleepUntil(clk)
       IN  clk' = [clk EXCEPT
                     !.now = t,
                     !.next_deadline = Reschedule(t, @ + Period),
                     !.slow = FALSE,
                     !.pc = "tick",
                     !.last = [op |-> "end_tick", finished |-> clk.now,
                               due |-> clk.next_deadline,
                               slept |-> Sleeps(clk), slow |-> clk.slow]]
    /\ clkFrame

NextClock ==
    \/ \E d \in Durations, slow \in BOOLEAN : Clock_tick(d, slow)
    \/ Clock_endTick

SpecClock == InitClock /\ [][NextClock]_vars

(***************************************************************************)
(* LaserScan (sensor.hpp).  The float fields take integer-valued floats    *)
(* that are not negative, and Inf for +infinity; float addition rounds to  *)
(* the 24-bit significand as the hardware does.                            *)
(***************************************************************************)
NumRanges == 360
Two24 == 16777216
Inf == 2147483647

isfinite(x) == x # Inf

\* The spacing of floats at x >= 0: 1 below 2^24, doubling from there on.
Ulp(x) == IF x < Two24 THEN 1 ELSE IF x < 2 * Two24 THEN 2 ELSE 4

\* Round to nearest, ties to the even significand.
RoundToFloat(n) ==
    LET u    == Ulp(n)
        down == (n \div u) * u
        up   == down + u
    IN  IF n = down THEN n
        ELSE IF 2 * (n - down) < u THEN down
        ELSE IF 2 * (n - down) > u THEN up
        ELSE IF (down \div u) % 2 = 0 THEN down ELSE up

\* x + 1.0f.
AddOne(x) == IF x = Inf THEN Inf ELSE RoundToFloat(x + 1)

ScanIndices == {0, 90, 359}
ScanReadings == {0, 5, 31, Two24, Inf}
RangeMins == {0, 1}
RangeMaxs == {30, Two24 - 1, Two24, Inf}

\* LaserScan(): ranges zeroed, range_min = 0.1f (1 here), range_max = 30.
LaserScan_ctor ==
    [type |-> "LaserScan", ranges |-> [i \in 0 .. NumRanges - 1 |-> 0],
     range_min |-> 1, range_max |-> 30,
     last |-> [op |-> "ctor", ret |-> 0]]

InitScan ==
    /\ BusInit(ModelN) /\ SchedInit
    /\ rt = NoRoundTrip /\ wr = NoWrappers
    /\ own = NoOwners /\ clk = NoClock
    /\ msg = LaserScan_ctor

is_range_valid(m, index) ==
    IF index >= NumRanges THEN FALSE
    ELSE LET range == m.ranges[index]
         IN  range >= m.range_min /\ range <= m.range_max /\ isfinite(range)

\* Iterations lo .. hi - 1 of the loop of valid_count, in order: the first
\* half, evaluated to a number, then the second half started from it.
RECURSIVE CountLoop(_, _, _, _)
CountLoop(m, lo, hi, count) ==
    IF lo >= hi THEN count
    ELSE IF hi = lo + 1
    THEN (IF is_range_valid(m, lo) THEN count + 1 ELSE count)
    ELSE LET mid == (lo + hi) \div 2
             half == CountLoop(m, lo, mid, count)
         IN  IF half >= 0 THEN CountLoop(m, mid, hi, half) ELSE half

valid_count(m) == CountLoop(m, 0, NumRanges, 0)

\* Iterations lo .. hi - 1 of the loop of min_range, in order.
RECURSIVE MinLoop(_, _, _, _)
MinLoop(m, lo, hi, min_val) ==
    IF lo >= hi THEN min_val
    ELSE IF hi = lo + 1
    THEN (IF is_range_valid(m, lo) /\ m.ranges[lo] < min_val
          THEN m.ranges[lo] ELSE min_val)
    ELSE LET mid == (lo + hi) \div 2
             half == MinLoop(m, lo, mid, min_val)
         IN  IF half >= 0 THEN MinLoop(m, mid, hi, half) ELSE half

min_range(m) ==
    LET min_val == MinLoop(m, 0, NumRanges, AddOne(m.range_max))
    IN  IF min_val <= m.range_max THEN min_val ELSE 0

\* scan.ranges[i] = v, scan.range_min = v, scan.range_max = v: the fields
\* are public.
LaserScan_set_range(i, v) ==
    /\ msg.type = "LaserScan"
    /\ msg' = [msg EXCEPT !.ranges[i] = v, !.last = [op |-> "write", ret |-> 0]]
    /\ msgFrame

LaserScan_set_range_min(v) ==
    /\ msg.type = "LaserScan"
    /\ msg' = [msg EXCEPT !.range_min = v, !.last = [op |-> "write", ret |-> 0]]
    /\ msgFrame

LaserScan_set_range_max(v) ==
    /\ msg.type = "LaserScan"
    /\ msg' = [msg EXCEPT !.range_max = v, !.last = [op |-> "write", ret |-> 0]]
    /\ msgFrame

LaserScan_valid_count ==
    /\ msg.type = "LaserScan"
    /\ msg' = [msg EXCEPT !.last = [op |-> "valid_count", ret |-> valid_count(msg)]]
    /\ msgFrame

LaserScan_min_range ==
    /\ msg.type = "LaserScan"
    /\ msg' = [msg EXCEPT !.last = [op |-> "min_range", ret |-> min_range(msg)]]
    /\ msgFrame

NextScan ==
    \/ \E i \in ScanIndices, v \in ScanReadings : LaserScan_set_range(i, v)
    \/ \E v \in RangeMins : LaserScan_set_range_min(v)
    \/ \E v \in RangeMaxs : LaserScan_set_range_max(v)
    \/ LaserScan_valid_count
    \/ LaserScan_min_range

SpecScan == InitScan /\ [][NextScan]_vars

(***************************************************************************)
(* DepthImage (perception.hpp): set_data, get_depth, set_depth.  The       *)
(* contents of depths are the caller's data and are not tracked: a read    *)
(* returns any depth.  uint32_t values that can exceed 2^31 are kept as    *)
(* <<high half, low half>>.                                                *)
(***************************************************************************)
\* DepthImage::MAX_PIXELS = 1280 * 960.
MAX_PIXELS == 1228800

\* The uint32_t sum p + x, for p in halves.
Add32(p, x) ==
    LET lo == p[2] + Lo16(x)
    IN  <<(p[1] + Hi16(x) + lo \div Two16) % Two16, lo % Two16>>

\* p < n, for a uint32_t p given in halves.
Less32(p, n) == p[1] < Hi16(n) \/ (p[1] = Hi16(n) /\ p[2] < Lo16(n))

DepthDims == {0, 2, 960, 1280, 1281, 65536, 65537}
DepthCoords == {0, 1, 100, 1279, 65535}
Depths == {0, 700}
NoIndex == <<0, 0>>

\* DepthImage(): width = 0, height = 0.
DepthImage_ctor ==
    [type |-> "DepthImage", width |-> 0, height |-> 0, memcpy_len |-> 0,
     clobbered |-> FALSE,
     last |-> [op |-> "ctor", ret |-> 0, in |-> <<0, 0>>, guard |-> FALSE,
               index |-> NoIndex]]

InitDepth ==
    /\ BusInit(ModelN) /\ SchedInit
    /\ rt = NoRoundTrip /\ wr = NoWrappers
    /\ own = NoOwners /\ clk = NoClock
    /\ msg = DepthImage_ctor

\* set_data(w, h, depth_data): the guard compares the uint32_t product.
DepthImage_set_data(w, h) ==
    /\ msg.type = "DepthImage"
    /\ msg' = IF Greater32(Mul32(w, h), MAX_PIXELS)
              THEN [msg EXCEPT !.last = [op |-> "set_data", ret |-> 0,
                                         in |-> <<w, h>>, guard |-> FALSE,
                                         index |-> NoIndex]]
              ELSE [msg EXCEPT !.width = w, !.height = h,
                               !.memcpy_len = 2 * Value32(Mul32(w, h)),
                               !.last = [op |-> "set_data", ret |-> 1,
                                         in |-> <<w, h>>, guard |-> TRUE,
                                         index |-> NoIndex]]
    /\ msgFrame

\* The uint32_t index y * width + x.
DepthIndex(x, y) == Add32(Mul32(y, msg.width), x)

\* get_depth(x, y): depths[y * width + x] behind the guard, 0 otherwise.
\* The element read, inside the array or beyond it, holds any depth.
DepthImage_get_depth(x, y) ==
    /\ msg.type = "DepthImage"
    /\ \E d \in Depths :
          msg' = IF x < msg.width /\ y < msg.height
                 THEN [msg EXCEPT !.last = [op |-> "get_depth", ret |-> d,
                                            in |-> <<x, y>>, guard |-> TRUE,
                                            index |-> DepthIndex(x, y)]]
                 ELSE [msg EXCEPT !.last = [op |-> "get_depth", ret |-> 0,
                                            in |-> <<x, y>>, guard |-> FALSE,
                                            index |-> NoIndex]]
    /\ msgFrame

\* set_depth(x, y, depth): a store at an index beyond the array lands in
\* the fields that follow depths or leaves them alone.
DepthImage_set_depth(x, y, depth) ==
    /\ msg.type = "DepthImage"
    /\ IF x < msg.width /\ y < msg.height
       THEN \E c \in (IF Less32(DepthIndex(x, y), MAX_PIXELS)
                      THEN {msg.clobbered} ELSE BOOLEAN) :
               msg' = [msg EXCEPT !.clobbered = c,
                                  !.last = [op |-> "set_depth", ret |-> 1,
                                            in |-> <<x, y>>, guard |-> TRUE,
                                            index |-> DepthIndex(x, y)]]
       ELSE msg' = [msg EXCEPT !.last = [op |-> "set_depth", ret |-> 0,
                                         in |-> <<x, y>>, guard |-> FALSE,
                                         index |-> NoIndex]]
    /\ msgFrame

NextDepth ==
    \/ \E w, h \in DepthDims : DepthImage_set_data(w, h)
    \/ \E x, y \in DepthCoords : DepthImage_get_depth(x, y)
    \/ \E x, y \in DepthCoords, d \in Depths : DepthImage_set_depth(x, y, d)

SpecDepth == InitDepth /\ [][NextDepth]_vars

(***************************************************************************)
(* Properties.                                                             *)
(***************************************************************************)
\* The step is a recv call of subscriber i on topic t.
IsRecvStep(t, i) == res'.op = "recv" /\ res'.topic = t /\ res'.idx = i

\* The step is a bind_publisher / bind_subscriber call on name t.
IsBindPublisherStep(t) == res'.op = "publisher" /\ res'.topic = t
IsBindSubscriberStep(t) == res'.op = "subscriber" /\ res'.topic = t

\* C1: for every topic and subscriber, each sequence number a successful recv
\* returns is strictly greater than the one the subscriber's previous
\* successful recv returned: messages may be skipped, never repeated or
\* reordered.
C1_StrictlyIncreasing ==
    [][\A t \in Topics : \A i \in 1..Len(read_seq[t]) :
          (IsRecvStep(t, i) /\ res'.ok) =>
              /\ res'.seq > delivered[t][i]
              /\ delivered'[t][i] = res'.seq]_vars

\* A subscriber received sequence 0, was then overtaken, and its next
\* successful recv skipped to sequence 3.
C1_Witness ==
    \E t \in Topics : \E i \in 1..Len(read_seq[t]) :
        /\ res.op = "recv" /\ res.ok /\ res.topic = t /\ res.idx = i
        /\ res.seq = 3 /\ dropped[t][i] = 2 /\ delivered[t][i] = 3

\* C2: drop-oldest, stated per recv call of a subscriber with cursor c when
\* k = write_seq - c messages are unread: if 1 <= k <= N the call returns
\* sequence c (the next in publication order) and counts no drop; if k > N
\* it returns write_seq - N (the oldest of the last N) and the drop counter
\* grows by exactly k - N.
C2_DropOldestExact ==
    [][\A t \in Topics : \A i \in 1..Len(read_seq[t]) :
          IsRecvStep(t, i) =>
              LET c == read_seq[t][i]
                  k == write_seq[t] - c
                  n == NSlots(t)
              IN  /\ (k >= 1 /\ k <= n) =>
                        /\ res'.ok /\ res'.seq = c
                        /\ dropped'[t][i] = dropped[t][i]
                  /\ (k > n) =>
                        /\ res'.ok /\ res'.seq = write_seq[t] - n
                        /\ dropped'[t][i] = dropped[t][i] + (k - n)]_vars

\* C3: in the publish-without-subscriber scenario every send on the bound
\* publisher succeeds, and a subscriber created after 10 sends observes on
\* its first recv the most recent message (sequence 9) with drop counter 9.
C3_LateSubscriberSeesLatest ==
    [][/\ (res'.op = "send" /\ pubLive[ScenarioTopic] > 0) => res'.ok
       /\ \A i \in 1..Len(read_seq[ScenarioTopic]) :
             ( /\ IsRecvStep(ScenarioTopic, i)
               /\ write_seq[ScenarioTopic] = 10
               /\ read_seq[ScenarioTopic][i] = 0
               /\ delivered[ScenarioTopic][i] = -1 ) =>
                 /\ res'.ok
                 /\ res'.seq = 9
                 /\ dropped'[ScenarioTopic][i] = 9]_vars

C5_NoMessageIffCaughtUp ==
    [][\A t \in Topics : \A i \in 1..Len(read_seq[t]) :
          IsRecvStep(t, i) =>
              /\ (~res'.ok) <=> (read_seq[t][i] = write_seq[t])
              /\ (~res'.ok) =>
                    /\ read_seq'[t][i] = read_seq[t][i]
                    /\ dropped'[t][i] = dropped[t][i]
              /\ (write_seq[t] - read_seq[t][i] > NSlots(t)) =>
                    /\ res'.ok
                    /\ dropped'[t][i] > dropped[t][i]]_vars

\* A subscriber that was overrun earlier (drops counted by a successful
\* recv) is now caught up and its recv returned "no message".
C5_Witness ==
    \E t \in Topics : \E i \in 1..Len(read_seq[t]) :
        /\ res.op = "recv" /\ ~res.ok /\ res.topic = t /\ res.idx = i
        /\ read_seq[t][i] = write_seq[t]
        /\ dropped[t][i] > 0

\* C6: with the writer and the reader interleaved at the numbered steps,
\* every successful recv returns exactly the payload that was published
\* with the sequence number the reader consumed.
C6_PayloadOfConsumedSeq ==
    (res.op = "recv" /\ res.ok) =>
        /\ res.seq \in 0..(Len(sent) - 1)
        /\ res.payload = sent[res.seq + 1]

\* C7: each topic has at most one live publisher handle; bind_publisher (of
\* the topic's type) on a topic with a live publisher fails with
\* DuplicatePublisher and changes nothing; once the publisher handle has
\* been dropped, bind_publisher of the same type succeeds again.
C7_OnePublisherRebindAfterDrop ==
    [][\A t \in Topics :
          /\ pubLive'[t] <= 1
          /\ (IsBindPublisherStep(t) /\ res'.ty = topicType[t] /\ pubLive[t] > 0) =>
                /\ res'.err = "DuplicatePublisher" /\ res'.handle = 0
                /\ UNCHANGED <<regVars, chanVars>>
          /\ (IsBindPublisherStep(t) /\ res'.ty = topicType[t] /\ pubLive[t] = 0) =>
                /\ res'.ok /\ res'.handle # 0
                /\ pubLive'[t] = 1]_vars

C10_AtMostMMaxCursors ==
    [][\A t \in Topics :
          /\ Len(read_seq'[t]) <= MMax
          /\ (IsBindSubscriberStep(t) /\ res'.ty = topicType[t]
                 /\ Len(read_seq[t]) = MMax) =>
                /\ res'.err = "TooManySubscribers" /\ res'.handle = 0 /\ ~res'.ok
                /\ UNCHANGED <<regVars, chanVars>>]_vars

\* A bind_subscriber was refused on a channel holding M_max cursors, one of
\* which has already advanced.
C10_Witness ==
    \E t \in Topics :
        /\ res.op = "subscriber" /\ res.topic = t
        /\ res.err = "TooManySubscribers"
        /\ Len(read_seq[t]) = MMax
        /\ read_seq[t][1] > 0

(***************************************************************************)
(* Properties of the scheduler.                                            *)
(***************************************************************************)
\* C11: within every tick the nodes are ticked one after the other in the
\* order of (priority, registration): whenever a was ticked before b in a
\* period, a has the lower priority value, or the same and was registered
\* earlier; when the period ends every initialized node was ticked exactly
\* once; and nodes registered as A(2), B(0), C(1) tick in the order B, C, A.
C11_TickOrder ==
    /\ \A i, j \in 1..Len(tickTrace) :
          i < j =>
             \/ nodes[tickTrace[i]].priority < nodes[tickTrace[j]].priority
             \/ /\ nodes[tickTrace[i]].priority = nodes[tickTrace[j]].priority
                /\ tickTrace[i] < tickTrace[j]
    /\ (phase = "loop" /\ tickNo > 0) =>
          \A n \in NodeIds :
             nstate[n] = "Initialized" =>
                Cardinality({i \in 1..Len(tickTrace) : tickTrace[i] = n}) = 1
    /\ ( /\ phase = "loop" /\ tickNo = 1
         /\ Len(nodes) = 3
         /\ nodes[1].priority = 2 /\ nodes[2].priority = 0 /\ nodes[3].priority = 1
         /\ \A n \in NodeIds : nstate[n] = "Initialized" ) =>
          tickTrace = <<2, 3, 1>>

\* The first tick of A(2), B(0), C(1) has completed in the order B, C, A.
C11_Witness ==
    /\ phase = "loop" /\ tickNo = 1
    /\ Len(nodes) = 3
    /\ nodes[1].priority = 2 /\ nodes[2].priority = 0 /\ nodes[3].priority = 1
    /\ tickTrace = <<2, 3, 1>>

C13_InitFailureIsolation ==
    [][\A n \in 1..Len(nodes) :
          /\ initRet'[n] = "fail" =>
                /\ calls'[n].tick = 0
                /\ calls'[n].shutdown = 0
          /\ ( /\ last'.cb = "init" /\ last'.node = n
               /\ nodes[n].kind = "pub"
               /\ \A m \in 1..(n - 1) : nodes[m].kind = "pub" => initRet[m] = "fail" ) =>
                /\ res'.op = "publisher"
                /\ res'.ok /\ res'.handle # 0
          /\ ( /\ \E x \in 1..Len(nodes) : initRet[x] = "fail"
               /\ phase = "tick" /\ phase' = "loop"
               /\ nstate[n] = "Initialized" ) =>
                \E i \in 1..Len(tickTrace) : tickTrace[i] = n
          /\ ( /\ \E x \in 1..Len(nodes) : initRet[x] = "fail"
               /\ phase' = "done"
               /\ initRet[n] = "ok" ) =>
                calls'[n].shutdown = 1]_vars

\* C14: after running has been cleared, the tick in progress is completed
\* for the nodes that remain in it, at most one further full tick is begun,
\* and shutdown calls begin only then, at a tick boundary; once a shutdown
\* call has been made no tick of any node starts.
C14_CooperativeStop ==
    [][/\ ticksAfterStop' <= 1
       /\ (phase' = "shutdown" /\ phase # "shutdown") =>
             /\ phase = "loop"
             /\ ~running
       /\ last'.cb = "shutdown" =>
             /\ ~running
             /\ \A n \in 1..Len(nodes) :
                   nstate[n] = "Initialized" => calls[n].tick = tickNo
       /\ last'.cb = "tick" =>
             \A n \in 1..Len(nodes) : calls[n].shutdown = 0]_vars

\* running was cleared in the middle of a tick and the tick went on: the
\* last node of a three-node period was ticked with running already clear.
C14_Witness ==
    /\ ~running
    /\ phase = "tick"
    /\ last.cb = "tick"
    /\ Len(tickTrace) = 3
    /\ tickNo = 1

\* C15: when a node's tick raises, the fault is caught: the scheduler goes on
\* with the node in Stopping and an ERROR logged; the node is not ticked in
\* any later period; every other initialized node is still ticked in every
\* period, in (priority, registration) order; and the faulted node has
\* received exactly one shutdown call when run() returns.
C15_TickFaultContained ==
    [][\A n \in 1..Len(nodes) :
          /\ (last'.cb = "tick" /\ last'.node = n /\ last'.raised) =>
                /\ phase' \in {"tick", "loop"}
                /\ nstate'[n] = "Stopping"
                /\ <<"TickFault", n>> \in errLog'
          /\ (last'.cb = "tick" /\ last'.node = n) =>
                <<"TickFault", n>> \notin errLog
          /\ (phase = "tick" /\ phase' = "loop" /\ nstate[n] = "Initialized") =>
                \E i \in 1..Len(tickTrace) : tickTrace[i] = n
          /\ \A i, j \in 1..Len(tickTrace') :
                i < j =>
                   \/ nodes[tickTrace'[i]].priority < nodes[tickTrace'[j]].priority
                   \/ /\ nodes[tickTrace'[i]].priority = nodes[tickTrace'[j]].priority
                      /\ tickTrace'[i] < tickTrace'[j]
          /\ (phase' = "done" /\ <<"TickFault", n>> \in errLog') =>
                calls'[n].shutdown = 1]_vars

\* C16: once running has been cleared run() eventually returns (unless a
\* raising tick ended the run); when it has returned, shutdown was invoked
\* on every initialized node, and for every node whose shutdown() reported
\* failure the scheduler logged an ERROR.
C16_StopTerminates ==
    /\ [](~running => <>(phase \in {"done", "aborted", "unwound"}))
    /\ [](phase = "done" =>
            \A n \in 1..Len(nodes) :
               initRet[n] = "ok" =>
                  /\ calls[n].shutdown = 1
                  /\ shutRet[n] = "fail" => <<"ShutdownFault", n>> \in errLog)

\* C17: on exit shutdown is called on the initialized nodes in the reverse
\* of the tick order: a node shut down earlier has the higher priority
\* value, or the same and was registered later; every initialized node is
\* shut down; handles are unbound and channels released only after the last
\* shutdown call (a publisher node's stop command, sent from its shutdown,
\* still goes out).
C17_ReverseShutdown ==
    [][/\ \A i, j \in 1..Len(shutTrace') :
             i < j =>
                \/ nodes[shutTrace'[j]].priority < nodes[shutTrace'[i]].priority
                \/ /\ nodes[shutTrace'[j]].priority = nodes[shutTrace'[i]].priority
                   /\ shutTrace'[j] < shutTrace'[i]
       /\ torn' =>
             \A n \in 1..Len(nodes) : initRet[n] = "ok" => calls'[n].shutdown = 1
       /\ last'.cb = "shutdown" =>
             /\ ~torn /\ ~torn'
             /\ nodes[last'.node].kind = "pub" =>
                   /\ res'.op = "send" /\ res'.ok
                   /\ hasPublisher'[NodeTopic]]_vars

\* run() has returned after shutting down three nodes, two of them of equal
\* priority, and the handles were unbound afterwards.
C17_Witness ==
    /\ phase = "done" /\ torn
    /\ Len(shutTrace) = 3
    /\ nodes[shutTrace[1]].priority = nodes[shutTrace[2]].priority
    /\ ~hasPublisher[NodeTopic]

\* C18: when a subscribing node is ticked and a publishing node of the same
\* topic ticks earlier in the tick order (lower priority value, or equal
\* and registered earlier), its recv returns the message the publisher sent
\* in this same tick; when the publishing node ticks later, its recv returns
\* the message sent in the previous tick if there is one, and never a
\* message of the current tick.
C18_SameTickVisibility ==
    [][\A n \in 1..Len(nodes) :
          (last'.cb = "tick" /\ last'.node = n /\ ~last'.raised
              /\ nodes[n].kind = "sub") =>
             \A p \in 1..Len(nodes) :
                (nodes[p].kind = "pub" /\ nstate[p] = "Initialized") =>
                   IF \/ nodes[p].priority < nodes[n].priority
                      \/ nodes[p].priority = nodes[n].priority /\ p < n
                   THEN /\ res'.op = "recv" /\ res'.ok
                        /\ sentTick[res'.seq + 1] = tickNo
                   ELSE /\ res'.op = "recv"
                        /\ res'.ok => sentTick[res'.seq + 1] = tickNo - 1
                        /\ (\E s \in 1..Len(sentTick) : sentTick[s] = tickNo - 1)
                              => res'.ok]_vars

\* In the second tick the subscribing node received the message the
\* publishing node, which ticks before it, sent in that tick.
C18_Witness ==
    /\ last.cb = "tick" /\ last.tick = 1
    /\ nodes[last.node].kind = "sub"
    /\ res.op = "recv" /\ res.ok /\ res.seq = 1
    /\ sentTick[2] = 1
    /\ nodes[1].priority <= nodes[2].priority

\* C19: a subscriber that received the published value v holds an object
\* whose linear and angular fields all equal those of v, whatever the slot
\* and the object held before.
C19_RoundTrip ==
    rt.phase = "received" =>
       \A f \in TwistFields : Field(rt.subApi, rt.outbuf, f) = rt.v[f]

\* C20: after a move construction or move assignment between two objects the
\* source holds handle 0 and is invalid and the destination holds the
\* source's handle; no two objects hold the same non-zero handle; a call on
\* an object that holds handle 0 (moved-from or default-constructed) does
\* not reach ::send / ::recv: send and recv of horus.hpp and send of
\* horus_new.hpp throw, try_send and recv of horus_new.hpp return false.
C20_MoveOnly ==
    wr.phase = "on" =>
       /\ \A a, b \in Wrappers :
             (a # b /\ wr.obj[a].state # "none" /\ wr.obj[b].state # "none"
                 /\ wr.obj[a].handle # 0) =>
                wr.obj[a].handle # wr.obj[b].handle
       /\ (wr.last.op \in {"move_ctor", "move_assign"} /\ wr.last.dst # wr.last.src) =>
             /\ wr.obj[wr.last.src].handle = 0
             /\ ~is_valid(wr.api, wr.obj[wr.last.src])
             /\ wr.obj[wr.last.dst].handle = wr.last.handle
             /\ is_valid(wr.api, wr.obj[wr.last.dst]) = (wr.last.handle # 0)
       /\ wr.last.op \in {"send", "try_send", "recv", "try_recv"} =>
             /\ wr.last.outcome = "ffi" => wr.last.handle # 0
             /\ wr.obj[wr.last.dst].state \in {"moved_from", "default"} =>
                   wr.last.outcome =
                      IF wr.api = "horus.hpp" \/ wr.last.op = "send"
                      THEN "throws" ELSE "false"

\* A moved-from horus_new.hpp publisher was asked to try_send while the
\* object it was moved to holds its handle.
C20_Witness ==
    /\ wr.phase = "on" /\ wr.api = "horus_new.hpp"
    /\ wr.last.op = "try_send" /\ wr.last.outcome = "false"
    /\ wr.obj[wr.last.dst].state = "moved_from"
    /\ \E b \in Wrappers : wr.obj[b].state = "moved_to" /\ wr.obj[b].handle # 0

\* C21: scheduler_destroy was called once for every created handle that no
\* Scheduler object holds any more, not at all for a handle an object still
\* holds, and never with handle 0: destroying a moved-from Scheduler calls
\* nothing.
C21_DestroyOnce ==
    own.phase = "on" /\ own.class = "Scheduler" =>
       /\ own.destroyed[0] = 0
       /\ \A h \in 1..own.created :
             own.destroyed[h] =
                IF \E w \in Wrappers : own.obj[w].state # "none" /\ own.obj[w].handle = h
                THEN 0 ELSE 1
       /\ \A a, b \in Wrappers :
             (a # b /\ own.obj[a].state # "none" /\ own.obj[b].state # "none"
                 /\ own.obj[a].handle # 0) => own.obj[a].handle # own.obj[b].handle

\* A moved-from Scheduler was destroyed while the object it was moved to
\* still holds its handle, and another handle was already destroyed.
C21_Witness ==
    /\ own.phase = "on" /\ own.class = "Scheduler"
    /\ own.last.op = "dtor" /\ own.last.state = "moved_from" /\ own.last.handle = 0
    /\ \E w \in Wrappers : own.obj[w].state = "moved_to" /\ own.obj[w].handle # 0
    /\ \E h \in 1..own.created : own.destroyed[h] = 1

\* C30: shutdown() is called once for each successful init() of a System
\* constructor: never more often than init() succeeded, as often once no
\* System object is left, and the destructor of a moved-from System does
\* not call it.
C30_ShutdownOncePerInit ==
    own.phase = "on" /\ own.class = "System" =>
       /\ own.shutdowns <= own.inits
       /\ (\A w \in Wrappers : own.obj[w].state = "none") =>
             own.shutdowns = own.inits
       /\ (own.last.op = "dtor" /\ own.last.moved_from_) => ~own.last.shutdown

\* C22: on an initialised grid, grid_to_world of a cell inside the grid
\* succeeds and world_to_grid of the coordinates it returned succeeds and
\* returns that cell; grid_to_world of a cell outside the grid returns
\* false and writes neither output.
C22_GridRoundTrip ==
    [][/\ msg'.last.op = "grid_to_world" =>
             /\ msg'.last.ret = (msg'.last.in[1] < msg.width
                                    /\ msg'.last.in[2] < msg.height)
             /\ ~msg'.last.ret => msg'.last.out = <<Unset, Unset>>
       /\ msg'.last.op = "world_to_grid" =>
             /\ msg'.last.ret
             /\ msg'.last.out = msg.last.in]_vars

\* C28: init returns true only when the product of w and h over the
\* integers is at most MAX_CELLS; after a true return data_length is that
\* product of width and height and at most MAX_CELLS; after a false return
\* no field of the grid has changed.
C28_InitBounded ==
    [][msg'.last.op = "init" =>
          LET w == msg'.last.in[1]
              h == msg'.last.in[2]
          IN  IF msg'.last.ret
              THEN /\ TrueProductAtMost(w, h, MAX_CELLS)
                   /\ msg'.width = w /\ msg'.height = h
                   /\ TrueProductEquals(msg'.width, msg'.height, msg'.data_length)
                   /\ msg'.data_length <= MAX_CELLS
              ELSE [msg' EXCEPT !.last = msg.last] = msg]_vars

\* C23: the count of an array message never exceeds its capacity (16, 256,
\* 32, 16); an add on a full container returns false and changes nothing,
\* an add on a container that is not full returns true, writes the element
\* at index count and increments count by one.
C23_CountBounded ==
    [][msg'.type \in ArrayTypes =>
          /\ msg'.count <= (CASE msg'.type = "JointCommand" -> 16
                              [] msg'.type = "Path" -> 256
                              [] msg'.type = "DetectionArray" -> 32
                              [] OTHER -> 16)
          /\ msg'.last.op = "add" =>
                IF msg.count = (CASE msg.type = "JointCommand" -> 16
                                  [] msg.type = "Path" -> 256
                                  [] msg.type = "DetectionArray" -> 32
                                  [] OTHER -> 16)
                THEN /\ ~msg'.last.ret
                     /\ msg'.count = msg.count
                     /\ msg'.last.write = NoWrite
                ELSE /\ msg'.last.ret
                     /\ msg'.count = msg.count + 1
                     /\ msg'.last.write[1] = msg.count
                     /\ msg'.last.write[2] \in Elements]_vars

\* An add on a Path that holds 256 waypoints returned false.
C23_Witness ==
    /\ msg.type = "Path" /\ msg.count = 256
    /\ msg.last.op = "add" /\ ~msg.last.ret

\* C24: the last char of every inline string field is NUL, and the string
\* read from the field is the string last set, cut to the first capacity-1
\* chars: nothing of an earlier, longer string is left in it.
C24_NulTerminated ==
    msg.type \in {"Odometry", "Status", "EmergencyStop", "JointCommand"}
       /\ "want1" \in DOMAIN msg =>
       /\ msg.f1[Len(msg.f1)] = 0
       /\ msg.f2[Len(msg.f2)] = 0
       /\ CStr(msg.f1) = SubSeq(msg.want1, 1, Min(Len(msg.want1), Len(msg.f1) - 1))
       /\ CStr(msg.f2) = SubSeq(msg.want2, 1, Min(Len(msg.want2), Len(msg.f2) - 1))

\* Status::set_component was called with a 2-char string on a component
\* field that held 31 chars.
C24_Witness ==
    /\ msg.type = "Status" /\ "want1" \in DOMAIN msg
    /\ msg.last.op = "set_component" /\ msg.last.before = 31
    /\ Len(msg.want2) = 2
    /\ Len(msg.want1) = 129

C27_MinRange ==
    LET inside == {i \in 0 .. NumRanges - 1 :
                     msg.range_min <= msg.ranges[i]
                        /\ msg.ranges[i] <= msg.range_max}
    IN  /\ (msg.type = "LaserScan" /\ msg.last.op = "min_range") =>
              IF inside = {} THEN msg.last.ret = 0
              ELSE /\ \E i \in inside : msg.last.ret = msg.ranges[i]
                   /\ \A i \in inside : msg.last.ret <= msg.ranges[i]
        /\ (msg.type = "LaserScan" /\ msg.last.op = "valid_count") =>
              msg.last.ret = Cardinality(inside)

\* C29: every get_depth and set_depth that passes the x < width and
\* y < height guard accesses an index below MAX_PIXELS, and set_data returns
\* false and changes nothing whenever the product of w and h over the
\* integers exceeds MAX_PIXELS.
C29_DepthInBounds ==
    [][/\ (msg'.type = "DepthImage"
             /\ msg'.last.op \in {"get_depth", "set_depth"}
             /\ msg'.last.guard) => Less32(msg'.last.index, MAX_PIXELS)
       /\ (msg'.type = "DepthImage" /\ msg'.last.op = "set_data"
             /\ ~TrueProductAtMost(msg'.last.in[1], msg'.last.in[2], MAX_PIXELS)) =>
             /\ msg'.last.ret = 0
             /\ [msg' EXCEPT !.last = msg.last] = msg]_vars

====
